---- MODULE Spec2Model ----
(***************************************************************************)
(* The playlist store of playlist-tidy (src/playlist-tidy/src/store/        *)
(* playlists.ts): entities, display order, selection, dirty flags and the   *)
(* undo/redo history of snapshots.  Every store action is a pure operator   *)
(* from a store state (a record of the store's fields) to the next store    *)
(* state, written after the updater the code hands to zustand's set(); the  *)
(* actions of the specifications apply these operators to the variables.    *)
(*                                                                          *)
(* JavaScript arrays are 0-based: historyIndex, fromIndex and toIndex keep  *)
(* the code's 0-based values, and sequences are indexed at index + 1.       *)
(***************************************************************************)
EXTENDS Integers, Sequences, FiniteSets, TLC

\* entities .. isDirty are the fields of PlaylistState.  now is the clock that
\* createSnapshot reads for a snapshot's timestamp: it advances by one with
\* every snapshot taken, so a timestamp is the number of the commit that took
\* it.  last and steps observe a behaviour: the store action that ran last,
\* and how many have run.
VARIABLES entities, order, selectedId, history, historyIndex, isDirty, now, last, steps,
          heap, root, requests, api, musicKit, tasks, jwt

vars == <<entities, order, selectedId, history, historyIndex, isDirty, now, last, steps,
          heap, root, requests, api, musicKit, tasks, jwt>>

(***************************************************************************)
(* Values                                                                   *)
(***************************************************************************)
\* selectedId: string | null
NULL == "null"
\* what [movedTrack] = tracks.splice(fromIndex, 1) binds when nothing is removed
UNDEFINED == "undefined"

\* Limit history to 50 snapshots (createSnapshot)
MaxHistory == 50

Min(a, b) == IF a < b THEN a ELSE b
Max(a, b) == IF a < b THEN b ELSE a

\* { ...obj, [k]: v }
Put(f, k, v) == [x \in DOMAIN f \cup {k} |-> IF x = k THEN v ELSE f[x]]
\* const { [k]: dropped, ...rest } = obj
Without(f, k) == [x \in DOMAIN f \ {k} |-> f[x]]
\* { ...a, ...b }
Merge(a, b) == [x \in DOMAIN a \cup DOMAIN b |-> IF x \in DOMAIN b THEN b[x] ELSE a[x]]
\* the empty object {}
EmptyObj == [x \in {} |-> FALSE]

\* Array.prototype.filter
RECURSIVE FilterSeq(_, _)
FilterSeq(s, drop) ==
  IF s = <<>> THEN <<>>
  ELSE IF Head(s) = drop THEN FilterSeq(Tail(s), drop)
       ELSE <<Head(s)>> \o FilterSeq(Tail(s), drop)

\* the start index Array.prototype.splice works at: a negative start counts
\* from the end, and the result is clamped to 0 .. length
SpliceStart(start, len) ==
  IF start < 0 THEN Max(len + start, 0) ELSE Min(start, len)

\* tracks.splice(start, 1): the array left behind
SpliceRemove(s, start) ==
  LET a == SpliceStart(start, Len(s))
  IN  IF a < Len(s) THEN SubSeq(s, 1, a) \o SubSeq(s, a + 2, Len(s)) ELSE s

\* [movedTrack] = tracks.splice(start, 1): the first removed element
SpliceTaken(s, start) ==
  LET a == SpliceStart(start, Len(s))
  IN  IF a < Len(s) THEN s[a + 1] ELSE UNDEFINED

\* tracks.splice(start, 0, x)
SpliceInsert(s, start, x) ==
  LET b == SpliceStart(start, Len(s))
  IN  SubSeq(s, 1, b) \o <<x>> \o SubSeq(s, b + 1, Len(s))

(***************************************************************************)
(* The store state as one record, and the store's actions as operators      *)
(***************************************************************************)
State ==
  [entities |-> entities, order |-> order, selectedId |-> selectedId,
   history |-> history, historyIndex |-> historyIndex, isDirty |-> isDirty,
   now |-> now]

\* playlist.relationships?.tracks?.data || []
TracksOf(playlist) == playlist.tracks

\* isDirty[id] read as a boolean (an absent key is undefined, which is falsy)
Dirty(s, id) == id \in DOMAIN s.isDirty /\ s.isDirty[id]

InitState ==
  [entities |-> EmptyObj, order |-> <<>>, selectedId |-> NULL,
   history |-> <<>>, historyIndex |-> -1, isDirty |-> EmptyObj, now |-> 0]

\* createSnapshot that appends without discarding the snapshots after the cursor
createSnapshotNoTruncate(s, description) ==
  LET snapshot == [entities |-> s.entities, order |-> s.order,
                   timestamp |-> s.now + 1, description |-> description]
      pushed == Append(s.history, snapshot)
      newHistory == IF Len(pushed) > MaxHistory THEN Tail(pushed) ELSE pushed
  IN  [s EXCEPT !.history = newHistory,
                !.historyIndex = Len(newHistory) - 1,
                !.now = s.now + 1]

\* createSnapshot without the limit of 50 snapshots
createSnapshotNoLimit(s, description) ==
  LET snapshot == [entities |-> s.entities, order |-> s.order,
                   timestamp |-> s.now + 1, description |-> description]
      newHistory == SubSeq(s.history, 1, s.historyIndex + 1) \o <<snapshot>>
  IN  [s EXCEPT !.history = newHistory,
                !.historyIndex = Len(newHistory) - 1,
                !.now = s.now + 1]

\* createSnapshot that drops the newest snapshot when over the limit
createSnapshotDropsNewest(s, description) ==
  LET snapshot == [entities |-> s.entities, order |-> s.order,
                   timestamp |-> s.now + 1, description |-> description]
      pushed == SubSeq(s.history, 1, s.historyIndex + 1) \o <<snapshot>>
      newHistory == IF Len(pushed) > MaxHistory
                    THEN SubSeq(pushed, 1, Len(pushed) - 1) ELSE pushed
  IN  [s EXCEPT !.history = newHistory,
                !.historyIndex = Len(newHistory) - 1,
                !.now = s.now + 1]

createSnapshot(s, description) ==
  LET snapshot == [entities |-> s.entities, order |-> s.order,
                   timestamp |-> s.now + 1, description |-> description]
      pushed == SubSeq(s.history, 1, s.historyIndex + 1) \o <<snapshot>>
      newHistory == IF Len(pushed) > MaxHistory THEN Tail(pushed) ELSE pushed
  IN  [s EXCEPT !.history = newHistory,
                !.historyIndex = Len(newHistory) - 1,
                !.now = s.now + 1]

canUndo(s) == s.historyIndex > 0
canRedo(s) == s.historyIndex < Len(s.history) - 1

\* undo without its early return at the first snapshot
undoUnguarded(s) ==
  IF s.historyIndex < 0 THEN s
  ELSE [s EXCEPT !.historyIndex = s.historyIndex - 1, !.isDirty = EmptyObj]

\* undo that resets the dirty flags before its early return
undoAlwaysClean(s) ==
  IF s.historyIndex <= 0 THEN [s EXCEPT !.isDirty = EmptyObj]
  ELSE [s EXCEPT !.entities = s.history[(s.historyIndex - 1) + 1].entities,
                 !.order = s.history[(s.historyIndex - 1) + 1].order,
                 !.historyIndex = s.historyIndex - 1,
                 !.isDirty = EmptyObj]

\* undo that restores the snapshot at the cursor, not the one before it
undoToCurrent(s) ==
  IF s.historyIndex <= 0 THEN s
  ELSE [s EXCEPT !.entities = s.history[s.historyIndex + 1].entities,
                 !.order = s.history[s.historyIndex + 1].order,
                 !.historyIndex = s.historyIndex - 1,
                 !.isDirty = EmptyObj]

\* undo that keeps the dirty flags
undoKeepsDirty(s) ==
  IF s.historyIndex <= 0 THEN s
  ELSE [s EXCEPT !.entities = s.history[(s.historyIndex - 1) + 1].entities,
                 !.order = s.history[(s.historyIndex - 1) + 1].order,
                 !.historyIndex = s.historyIndex - 1]

undo(s) ==
  IF s.historyIndex <= 0 THEN s
  ELSE LET previousSnapshot == s.history[(s.historyIndex - 1) + 1]
       IN  [s EXCEPT !.entities = previousSnapshot.entities,
                     !.order = previousSnapshot.order,
                     !.historyIndex = s.historyIndex - 1,
                     !.isDirty = EmptyObj]

\* redo that restores the snapshot at the cursor, not the one after it
redoToCurrent(s) ==
  IF s.historyIndex >= Len(s.history) - 1 THEN s
  ELSE [s EXCEPT !.entities = s.history[s.historyIndex + 1].entities,
                 !.order = s.history[s.historyIndex + 1].order,
                 !.historyIndex = s.historyIndex + 1,
                 !.isDirty = EmptyObj]

redo(s) ==
  IF s.historyIndex >= Len(s.history) - 1 THEN s
  ELSE LET nextSnapshot == s.history[(s.historyIndex + 1) + 1]
       IN  [s EXCEPT !.entities = nextSnapshot.entities,
                     !.order = nextSnapshot.order,
                     !.historyIndex = s.historyIndex + 1,
                     !.isDirty = EmptyObj]

selectPlaylist(s, id) == [s EXCEPT !.selectedId = id]

addPlaylist(s, playlist) ==
  createSnapshot(
    [s EXCEPT !.entities = Put(s.entities, playlist.id, playlist),
              !.order = Append(s.order, playlist.id),
              !.isDirty = Put(s.isDirty, playlist.id, FALSE)],
    "Added playlist: " \o playlist.name)

updatePlaylist(s, id, updates) ==
  IF id \notin DOMAIN s.entities THEN s
  ELSE [s EXCEPT !.entities = Put(s.entities, id, Merge(s.entities[id], updates)),
                 !.isDirty = Put(s.isDirty, id, TRUE)]

\* deletePlaylist with selectedId left alone
deletePlaylistKeepsSelection(s, id) ==
  createSnapshot(
    [s EXCEPT !.entities = Without(s.entities, id),
              !.order = FilterSeq(s.order, id),
              !.isDirty = Without(s.isDirty, id)],
    "Deleted playlist")

deletePlaylist(s, id) ==
  createSnapshot(
    [s EXCEPT !.entities = Without(s.entities, id),
              !.order = FilterSeq(s.order, id),
              !.selectedId = IF s.selectedId = id THEN NULL ELSE s.selectedId,
              !.isDirty = Without(s.isDirty, id)],
    "Deleted playlist")

\* an addTrackToPlaylist that commits: it appends the track and then takes a
\* snapshot
addTrackToPlaylistCommits(s, playlistId, track) ==
  IF playlistId \notin DOMAIN s.entities THEN s
  ELSE LET playlist == s.entities[playlistId]
           updatedPlaylist == [playlist EXCEPT !.tracks = Append(TracksOf(playlist), track)]
       IN  createSnapshot([s EXCEPT !.entities = Put(s.entities, playlistId, updatedPlaylist),
                                    !.isDirty = Put(s.isDirty, playlistId, TRUE)],
                          "Added track")

addTrackToPlaylist(s, playlistId, track) ==
  IF playlistId \notin DOMAIN s.entities THEN s
  ELSE LET playlist == s.entities[playlistId]
           updatedPlaylist == [playlist EXCEPT !.tracks = Append(TracksOf(playlist), track)]
       IN  [s EXCEPT !.entities = Put(s.entities, playlistId, updatedPlaylist),
                     !.isDirty = Put(s.isDirty, playlistId, TRUE)]

\* track.id of an undefined array element is a TypeError
removeTrackThrows(s, playlistId, trackId) ==
  /\ playlistId \in DOMAIN s.entities
  /\ \E i \in 1..Len(TracksOf(s.entities[playlistId])) :
        TracksOf(s.entities[playlistId])[i] = UNDEFINED

removeTrackFromPlaylist(s, playlistId, trackId) ==
  IF playlistId \notin DOMAIN s.entities THEN s
  ELSE IF removeTrackThrows(s, playlistId, trackId) THEN s
  ELSE LET playlist == s.entities[playlistId]
           updatedPlaylist ==
             [playlist EXCEPT !.tracks = FilterSeq(TracksOf(playlist), trackId)]
       IN  [s EXCEPT !.entities = Put(s.entities, playlistId, updatedPlaylist),
                     !.isDirty = Put(s.isDirty, playlistId, TRUE)]

moveTrack(s, playlistId, fromIndex, toIndex) ==
  IF playlistId \notin DOMAIN s.entities THEN s
  ELSE LET playlist == s.entities[playlistId]
           movedTrack == SpliceTaken(TracksOf(playlist), fromIndex)
           tracks == SpliceInsert(SpliceRemove(TracksOf(playlist), fromIndex),
                                  toIndex, movedTrack)
           updatedPlaylist == [playlist EXCEPT !.tracks = tracks]
       IN  [s EXCEPT !.entities = Put(s.entities, playlistId, updatedPlaylist),
                     !.isDirty = Put(s.isDirty, playlistId, TRUE)]

\* one mutation of a batch: the switch of applyMutations.  The result is the
\* store state and whether the mutation threw (a rename reads
\* get().entities[playlistId].attributes, a TypeError when the playlist is
\* absent; a remove throws as removeTrackFromPlaylist does)
RECURSIVE addTracks(_, _, _)
addTracks(s, playlistId, tracks) ==
  IF tracks = <<>> THEN s
  ELSE addTracks(addTrackToPlaylist(s, playlistId, Head(tracks)), playlistId, Tail(tracks))

applyMutation(s, playlistId, mutation) ==
  CASE mutation.op = "add" ->
         [s |-> IF "tracks" \in DOMAIN mutation
                THEN addTracks(s, playlistId, mutation.tracks) ELSE s,
          threw |-> FALSE]
    [] mutation.op = "remove" ->
         IF "trackId" \in DOMAIN mutation /\ mutation.trackId # ""
         THEN [s |-> removeTrackFromPlaylist(s, playlistId, mutation.trackId),
               threw |-> removeTrackThrows(s, playlistId, mutation.trackId)]
         ELSE [s |-> s, threw |-> FALSE]
    [] mutation.op = "move" ->
         [s |-> IF "fromIndex" \in DOMAIN mutation /\ "toIndex" \in DOMAIN mutation
                THEN moveTrack(s, playlistId, mutation.fromIndex, mutation.toIndex)
                ELSE s,
          threw |-> FALSE]
    [] mutation.op = "rename" ->
         IF "name" \in DOMAIN mutation /\ mutation.name # ""
         THEN IF playlistId \in DOMAIN s.entities
              THEN [s |-> updatePlaylist(s, playlistId, [name |-> mutation.name]),
                    threw |-> FALSE]
              ELSE [s |-> s, threw |-> TRUE]
         ELSE [s |-> s, threw |-> FALSE]
    [] OTHER -> [s |-> s, threw |-> FALSE]

\* the forEach walking the batch from its last mutation to its first
RECURSIVE forEachMutationBackwards(_, _, _)
forEachMutationBackwards(r, playlistId, mutations) ==
  IF mutations = <<>> \/ r.threw THEN r
  ELSE forEachMutationBackwards(
         applyMutation(r.s, playlistId, mutations[Len(mutations)]),
         playlistId, SubSeq(mutations, 1, Len(mutations) - 1))

\* the forEach with a switch that throws on a tag it has no case for
RECURSIVE forEachMutationStrict(_, _, _)
forEachMutationStrict(r, playlistId, mutations) ==
  IF mutations = <<>> \/ r.threw THEN r
  ELSE IF Head(mutations).op \notin {"add", "remove", "move", "rename"}
       THEN [s |-> r.s, threw |-> TRUE]
       ELSE forEachMutationStrict(applyMutation(r.s, playlistId, Head(mutations)),
                                  playlistId, Tail(mutations))

\* mutations.forEach(...): in array order, stopped by the first exception
RECURSIVE forEachMutation(_, _, _)
forEachMutation(r, playlistId, mutations) ==
  IF mutations = <<>> \/ r.threw THEN r
  ELSE forEachMutation(applyMutation(r.s, playlistId, Head(mutations)),
                       playlistId, Tail(mutations))

applyMutations(s, playlistId, mutations) ==
  LET r == forEachMutation([s |-> s, threw |-> FALSE], playlistId, mutations)
  IN  IF r.threw THEN r
      ELSE [s |-> createSnapshot(r.s, "Applied " \o ToString(Len(mutations)) \o " mutations"),
            threw |-> FALSE]

\* loadPlaylists once appleMusicAPI.listPlaylists() has resolved with playlists
RECURSIVE entitiesOf(_)
entitiesOf(playlists) ==
  IF playlists = <<>> THEN EmptyObj
  ELSE Put(entitiesOf(SubSeq(playlists, 1, Len(playlists) - 1)),
           playlists[Len(playlists)].id, playlists[Len(playlists)])

loadPlaylists(s, playlists) ==
  createSnapshot(
    [s EXCEPT !.entities = entitiesOf(playlists),
              !.order = [i \in 1..Len(playlists) |-> playlists[i].id]],
    "Loaded playlists from Apple Music")

\* a pull in which local edits win: a dirty playlist is not overwritten
syncPlaylistKeepsEdits(s, id, playlist) ==
  IF Dirty(s, id) THEN s
  ELSE [s EXCEPT !.entities = Put(s.entities, id, playlist),
                 !.isDirty = Put(s.isDirty, id, FALSE)]

\* syncPlaylist once appleMusicAPI.getPlaylist(id) has resolved with playlist
syncPlaylist(s, id, playlist) ==
  [s EXCEPT !.entities = Put(s.entities, id, playlist),
            !.isDirty = Put(s.isDirty, id, FALSE)]

\* a push that also commits: it clears the flag and then takes a snapshot
pushChangesCommits(s, id) ==
  IF id \notin DOMAIN s.entities \/ ~Dirty(s, id) THEN s
  ELSE createSnapshot([s EXCEPT !.isDirty = Put(s.isDirty, id, FALSE)], "Pushed changes")

pushChanges(s, id) ==
  IF id \notin DOMAIN s.entities \/ ~Dirty(s, id) THEN s
  ELSE [s EXCEPT !.isDirty = Put(s.isDirty, id, FALSE)]

\* a failed pull that gives up the local copy of the playlist
syncPlaylistFailedDrops(s, id) ==
  [s EXCEPT !.entities = Without(s.entities, id), !.isDirty = Put(s.isDirty, id, FALSE)]

\* syncPlaylist once appleMusicAPI.getPlaylist(id) has rejected: the catch
\* block logs the error
syncPlaylistFailed(s, id) == s

\* a revert that only pulls a playlist that has local edits
revertChangesIfDirty(s, id, playlist) ==
  IF Dirty(s, id) THEN syncPlaylist(s, id, playlist) ELSE s

\* revertChanges calls syncPlaylist
revertChanges(s, id, playlist) == syncPlaylist(s, id, playlist)

\* revertChanges once the getPlaylist of its syncPlaylist has rejected
revertChangesFailed(s, id) == syncPlaylistFailed(s, id)

(***************************************************************************)
(* The store as objects and references.  The operators above take the      *)
(* store's values; here every object and array the code builds is a cell   *)
(* of heap, a field that holds an object holds the cell's address, and a   *)
(* statement that changes an object in place (push, shift, splice,         *)
(* obj[key] = value) rewrites its cell.  root is the store's state: the    *)
(* addresses of entities, order, history and isDirty, and historyIndex.    *)
(* A playlist is one cell (its attributes and relationships objects are    *)
(* never written to, and are folded into it) that holds the address of its *)
(* track array.                                                            *)
(***************************************************************************)
MapObject(fields) == [kind |-> "map", fields |-> fields]
ArrayObject(items) == [kind |-> "array", items |-> items]
PlaylistObject(id, name, data) ==
  [kind |-> "playlist", id |-> id, name |-> name, data |-> data]

Machine == [heap |-> heap, root |-> root]

\* an object literal, spread, slice or filter: a new cell, the newest of the heap
New(m, object) == [m EXCEPT !.heap = Append(m.heap, object)]
Newest(m) == Len(m.heap)
\* a statement that changes the object at address in place
Write(m, address, object) == [m EXCEPT !.heap[address] = object]
Fields(m, address) == m.heap[address].fields
Items(m, address) == m.heap[address].items

InitMachine ==
  [heap |-> <<MapObject(EmptyObj), ArrayObject(<<>>), ArrayObject(<<>>),
              MapObject(EmptyObj)>>,
   root |-> [entities |-> 1, order |-> 2, history |-> 3, isDirty |-> 4,
             historyIndex |-> -1, now |-> 0]]

\* a playlist object made outside the store (the argument of addPlaylist, a
\* playlist of the API) with its track array
Given(m, playlist) ==
  LET m1 == New(m, ArrayObject(playlist.tracks))
  IN  New(m1, PlaylistObject(playlist.id, playlist.name, Newest(m1)))

createSnapshotOnHeap(m, description) ==
  LET m1 == New(m, MapObject(Fields(m, m.root.entities)))
      m2 == New(m1, ArrayObject(Items(m, m.root.order)))
      snapshot == [entities |-> Newest(m1), order |-> Newest(m2),
                   timestamp |-> m.root.now + 1, description |-> description]
      m3 == New(m2, ArrayObject(SubSeq(Items(m, m.root.history), 1,
                                       m.root.historyIndex + 1)))
      newHistory == Newest(m3)
      m4 == Write(m3, newHistory, ArrayObject(Append(Items(m3, newHistory), snapshot)))
      m5 == IF Len(Items(m4, newHistory)) > MaxHistory
            THEN Write(m4, newHistory, ArrayObject(Tail(Items(m4, newHistory))))
            ELSE m4
  IN  [m5 EXCEPT !.root.history = newHistory,
                 !.root.historyIndex = Len(Items(m5, newHistory)) - 1,
                 !.root.now = @ + 1]

addPlaylistOnHeap(m, playlist) ==
  LET m1 == Given(m, playlist)
      m2 == New(m1, MapObject(Put(Fields(m, m.root.entities), playlist.id, Newest(m1))))
      m3 == New(m2, ArrayObject(Append(Items(m, m.root.order), playlist.id)))
      m4 == New(m3, MapObject(Put(Fields(m, m.root.isDirty), playlist.id, FALSE)))
  IN  createSnapshotOnHeap(
        [m4 EXCEPT !.root.entities = Newest(m2), !.root.order = Newest(m3),
                   !.root.isDirty = Newest(m4)],
        "Added playlist: " \o playlist.name)

\* return { entities: { ...state.entities, [id]: object },
\*          isDirty: { ...state.isDirty, [id]: true } }
WithPlaylist(m, id, object) ==
  LET m1 == New(m, object)
      m2 == New(m1, MapObject(Put(Fields(m, m.root.entities), id, Newest(m1))))
      m3 == New(m2, MapObject(Put(Fields(m, m.root.isDirty), id, TRUE)))
  IN  [m3 EXCEPT !.root.entities = Newest(m2), !.root.isDirty = Newest(m3)]

\* state.entities[id]
PlaylistAt(m, id) == m.heap[Fields(m, m.root.entities)[id]]
Holds(m, id) == id \in DOMAIN Fields(m, m.root.entities)

updatePlaylistOnHeap(m, id, updates) ==
  IF ~Holds(m, id) THEN m
  ELSE WithPlaylist(m, id, Merge(PlaylistAt(m, id), updates))

deletePlaylistOnHeap(m, id) ==
  LET m1 == New(m, MapObject(Without(Fields(m, m.root.entities), id)))
      m2 == New(m1, MapObject(Without(Fields(m, m.root.isDirty), id)))
      m3 == New(m2, ArrayObject(FilterSeq(Items(m, m.root.order), id)))
  IN  createSnapshotOnHeap(
        [m3 EXCEPT !.root.entities = Newest(m1), !.root.isDirty = Newest(m2),
                   !.root.order = Newest(m3)],
        "Deleted playlist")

addTrackToPlaylistOnHeap(m, playlistId, track) ==
  IF ~Holds(m, playlistId) THEN m
  ELSE LET playlist == PlaylistAt(m, playlistId)
           m1 == New(m, ArrayObject(Append(Items(m, playlist.data), track)))
       IN  WithPlaylist(m1, playlistId, [playlist EXCEPT !.data = Newest(m1)])

removeTrackFromPlaylistOnHeap(m, playlistId, trackId) ==
  IF ~Holds(m, playlistId) THEN m
  ELSE LET playlist == PlaylistAt(m, playlistId)
           tracks == Items(m, playlist.data)
       IN  IF \E i \in 1..Len(tracks) : tracks[i] = UNDEFINED THEN m
           ELSE LET m1 == New(m, ArrayObject(FilterSeq(tracks, trackId)))
                IN  WithPlaylist(m1, playlistId, [playlist EXCEPT !.data = Newest(m1)])

\* moveTrack splicing the playlist's own track array, not a copy of it
moveTrackInPlace(m, playlistId, fromIndex, toIndex) ==
  IF ~Holds(m, playlistId) THEN m
  ELSE LET playlist == PlaylistAt(m, playlistId)
           tracks == playlist.data
           movedTrack == SpliceTaken(Items(m, tracks), fromIndex)
           m2 == Write(m, tracks, ArrayObject(SpliceRemove(Items(m, tracks), fromIndex)))
           m3 == Write(m2, tracks,
                       ArrayObject(SpliceInsert(Items(m2, tracks), toIndex, movedTrack)))
       IN  WithPlaylist(m3, playlistId, [playlist EXCEPT !.data = tracks])

moveTrackOnHeap(m, playlistId, fromIndex, toIndex) ==
  IF ~Holds(m, playlistId) THEN m
  ELSE LET playlist == PlaylistAt(m, playlistId)
           m1 == New(m, ArrayObject(Items(m, playlist.data)))
           tracks == Newest(m1)
           movedTrack == SpliceTaken(Items(m1, tracks), fromIndex)
           m2 == Write(m1, tracks, ArrayObject(SpliceRemove(Items(m1, tracks), fromIndex)))
           m3 == Write(m2, tracks,
                       ArrayObject(SpliceInsert(Items(m2, tracks), toIndex, movedTrack)))
       IN  WithPlaylist(m3, playlistId, [playlist EXCEPT !.data = tracks])

\* undo and redo: the store takes copies of the snapshot's entities and order
RestoreOnHeap(m, index) ==
  LET snapshot == Items(m, m.root.history)[index + 1]
      m1 == New(m, MapObject(Fields(m, snapshot.entities)))
      m2 == New(m1, ArrayObject(Items(m, snapshot.order)))
      m3 == New(m2, MapObject(EmptyObj))
  IN  [m3 EXCEPT !.root.entities = Newest(m1), !.root.order = Newest(m2),
                 !.root.isDirty = Newest(m3), !.root.historyIndex = index]

undoOnHeap(m) ==
  IF m.root.historyIndex <= 0 THEN m ELSE RestoreOnHeap(m, m.root.historyIndex - 1)

redoOnHeap(m) ==
  IF m.root.historyIndex >= Len(Items(m, m.root.history)) - 1 THEN m
  ELSE RestoreOnHeap(m, m.root.historyIndex + 1)

\* playlists.forEach(playlist => { entities[playlist.id] = playlist;
\*                                 order.push(playlist.id) })
RECURSIVE fillOnHeap(_, _, _, _)
fillOnHeap(m, entitiesAt, orderAt, playlists) ==
  IF playlists = <<>> THEN m
  ELSE LET playlist == Head(playlists)
           m1 == Given(m, playlist)
           m2 == Write(m1, entitiesAt,
                       MapObject(Put(Fields(m1, entitiesAt), playlist.id, Newest(m1))))
           m3 == Write(m2, orderAt,
                       ArrayObject(Append(Items(m2, orderAt), playlist.id)))
       IN  fillOnHeap(m3, entitiesAt, orderAt, Tail(playlists))

loadPlaylistsOnHeap(m, playlists) ==
  LET m1 == New(m, MapObject(EmptyObj))
      m2 == New(m1, ArrayObject(<<>>))
      m3 == fillOnHeap(m2, Newest(m1), Newest(m2), playlists)
  IN  createSnapshotOnHeap(
        [m3 EXCEPT !.root.entities = Newest(m1), !.root.order = Newest(m2)],
        "Loaded playlists from Apple Music")

syncPlaylistOnHeap(m, id, playlist) ==
  LET m1 == Given(m, playlist)
      m2 == New(m1, MapObject(Put(Fields(m, m.root.entities), id, Newest(m1))))
      m3 == New(m2, MapObject(Put(Fields(m, m.root.isDirty), id, FALSE)))
  IN  [m3 EXCEPT !.root.entities = Newest(m2), !.root.isDirty = Newest(m3)]

pushChangesOnHeap(m, id) ==
  IF ~Holds(m, id) THEN m
  ELSE IF id \notin DOMAIN Fields(m, m.root.isDirty) THEN m
  ELSE IF ~Fields(m, m.root.isDirty)[id] THEN m
  ELSE LET m1 == New(m, MapObject(Put(Fields(m, m.root.isDirty), id, FALSE)))
       IN  [m1 EXCEPT !.root.isDirty = Newest(m1)]

(***************************************************************************)
(* AppleMusicAPI: initialize and authorize.  Both are asynchronous: a call  *)
(* runs to its first await and every later part runs when what it awaits    *)
(* has settled.  A world holds the private fields of the AppleMusicAPI       *)
(* object, window.MusicKit with the requests sent to it, and the calls of    *)
(* asynchronous functions made so far (tasks), each with its position, the   *)
(* task or request it awaits and the result of its promise.                  *)
(***************************************************************************)
\* music: whether this.music holds an instance; initializationPromise: the
\* task of the _doInitialize call whose promise it holds, 0 for null
InitApi == [music |-> FALSE, isInitializing |-> FALSE, initializationPromise |-> 0]

\* loaded: window.MusicKit is defined; configured: getInstance() returns an
\* instance; ready: the instance has api.music, api.library and
\* authorizationStatus 3
InitMusicKit(loaded) ==
  [loaded |-> loaded, configured |-> FALSE, isAuthorized |-> FALSE, ready |-> FALSE,
   requests |-> <<>>]

\* i: the loop variable of waitForMusicAPI, 0 in every other task; by: the
\* task that made the call, 0 when the application made it
Task(fn, pc, on, result) ==
  [fn |-> fn, pc |-> pc, on |-> on, result |-> result, i |-> 0, by |-> 0]

Spawn(w, task) == [w EXCEPT !.tasks = Append(@, task)]

\* task t sends a request to MusicKit and awaits it at position pc
Send(w, kind, t, pc) ==
  [w EXCEPT !.musicKit.requests = Append(@, [kind |-> kind, by |-> t, status |-> "pending"]),
            !.tasks[t].pc = pc,
            !.tasks[t].on = Len(w.musicKit.requests) + 1]

\* the request task t awaits has settled
Answered(w, t, status) == [w EXCEPT !.musicKit.requests[w.tasks[t].on].status = status]

\* task t returns or throws: its promise settles with result
Finish(w, t, result) == [w EXCEPT !.tasks[t].pc = "done", !.tasks[t].result = result]

\* _doInitialize from its check for an existing instance on
configureFrom(w, t) ==
  IF w.musicKit.configured
  THEN Finish([w EXCEPT !.api.music = TRUE], t, "fulfilled")
  ELSE Send(w, "configure", t, "configuring")

\* _doInitialize() up to its first await
doInitialize(w) ==
  LET t == Len(w.tasks) + 1
      w1 == Spawn(w, Task("_doInitialize", "loading", 0, "pending"))
      w2 == [w1 EXCEPT !.tasks[t].by = Len(w.tasks)]
  IN  IF w.musicKit.loaded THEN configureFrom(w2, t) ELSE w2

\* waitForMusicKit() has resolved
doInitializeLoaded(w, t) == configureFrom(w, t)

\* waitForMusicKit() has rejected after its ten seconds
doInitializeTimedOut(w, t) == Finish(w, t, "rejected")

\* configure() has settled; session is what the instance says of the user:
\* "none" (not authorized), "stale" (authorized, not ready) or "ready", and
\* "failed" when configure rejected
configureSettled(w, t, session) ==
  IF session = "failed" THEN Finish(Answered(w, t, "rejected"), t, "rejected")
  ELSE Finish([Answered(w, t, "fulfilled") EXCEPT
                 !.musicKit.configured = TRUE,
                 !.musicKit.isAuthorized = (session # "none"),
                 !.musicKit.ready = (session = "ready"),
                 !.api.music = TRUE],
              t, "fulfilled")

\* initialize() without its first guard: a caller that arrives during an
\* attempt meets the isInitializing guard and returns at once
initializeNoJoin(w) ==
  LET c == Len(w.tasks) + 1
  IN  IF w.api.music /\ w.musicKit.configured
      THEN Spawn(w, Task("initialize", "done", 0, "fulfilled"))
      ELSE IF w.api.isInitializing
      THEN Spawn(w, Task("initialize", "done", 0, "fulfilled"))
      ELSE [doInitialize(Spawn(w, Task("initialize", "awaiting", c + 1, "pending")))
              EXCEPT !.api.isInitializing = TRUE, !.api.initializationPromise = c + 1]

\* initialize() up to its first await
initialize(w) ==
  LET c == Len(w.tasks) + 1
  IN  IF w.api.initializationPromise # 0
      THEN Spawn(w, Task("initialize", "joined", w.api.initializationPromise, "pending"))
      ELSE IF w.api.music /\ w.musicKit.configured
      THEN Spawn(w, Task("initialize", "done", 0, "fulfilled"))
      ELSE IF w.api.isInitializing
      THEN Spawn(w, Task("initialize", "done", 0, "fulfilled"))
      ELSE [doInitialize(Spawn(w, Task("initialize", "awaiting", c + 1, "pending")))
              EXCEPT !.api.isInitializing = TRUE, !.api.initializationPromise = c + 1]

\* the promise initialize() awaits has settled: the finally block runs and
\* the call ends as the attempt ended
initializeResumed(w, c) ==
  Finish([w EXCEPT !.api.isInitializing = FALSE, !.api.initializationPromise = 0],
         c, w.tasks[w.tasks[c].on].result)

\* the promise initialize() returned from its first guard has settled
initializeJoined(w, c) == Finish(w, c, w.tasks[w.tasks[c].on].result)

requestAuthorization(w, c) == Send(w, "requestAuthorization", c, "requesting")

\* authorize() from its try block on
authorizeFrom(w, c) ==
  IF w.musicKit.isAuthorized /\ w.musicKit.ready THEN Finish(w, c, "true")
  ELSE IF w.musicKit.isAuthorized THEN Send(w, "unauthorize", c, "unauthorizing")
  ELSE requestAuthorization(w, c)

\* authorize() up to its first await
authorize(w) ==
  LET c == Len(w.tasks) + 1
      w1 == Spawn(w, Task("authorize", "called", 0, "pending"))
  IN  IF ~w.api.music
      THEN [initialize(w1) EXCEPT !.tasks[c].pc = "initializing", !.tasks[c].on = c + 1,
                                  !.tasks[c + 1].by = c]
      ELSE authorizeFrom(w1, c)

\* the initialize() that authorize() awaits has settled; a rejection is
\* thrown outside the try block
authorizeInitialized(w, c) ==
  IF w.tasks[w.tasks[c].on].result = "rejected" THEN Finish(w, c, "rejected")
  ELSE IF ~w.api.music THEN Finish(w, c, "false")
  ELSE authorizeFrom(w, c)

\* unauthorize() has settled: when it resolved the half second's wait
\* begins, when it rejected the error is logged and authorize() goes on
unauthorizeSettled(w, c, resolved) ==
  IF resolved
  THEN [Answered(w, c, "fulfilled") EXCEPT !.musicKit.isAuthorized = FALSE,
                                           !.musicKit.ready = FALSE,
                                           !.tasks[c].pc = "waiting"]
  ELSE requestAuthorization(Answered(w, c, "rejected"), c)

\* the half second after unauthorize() is over
authorizeWaited(w, c) == requestAuthorization(w, c)

\* const maxRetries = 20
maxRetries == 20

\* the check of waitForMusicAPI: the instance, api.music, api.library and
\* authorizationStatus 3
checkMusicAPI(w) == w.api.music /\ w.musicKit.ready

\* the getter isAuthorized
isAuthorized(w) == w.api.music /\ w.musicKit.isAuthorized /\ w.musicKit.ready

\* a waitForMusicAPI that gives the API one more check
waitIterationOneMore(w, t) ==
  IF w.tasks[t].i <= maxRetries
  THEN IF checkMusicAPI(w) THEN Finish(w, t, "true")
       ELSE [w EXCEPT !.tasks[t].pc = "sleeping"]
  ELSE Finish(w, t, "false")

\* the loop of waitForMusicAPI from its test i < maxRetries to the next await
\* or return
waitIteration(w, t) ==
  IF w.tasks[t].i < maxRetries
  THEN IF checkMusicAPI(w) THEN Finish(w, t, "true")
       ELSE [w EXCEPT !.tasks[t].pc = "sleeping"]
  ELSE Finish(w, t, "false")

\* waitForMusicAPI() up to its first await or return
waitForMusicAPI(w) ==
  waitIteration(Spawn(w, Task("waitForMusicAPI", "checking", 0, "pending")),
                Len(w.tasks) + 1)

\* authorize() calls waitForMusicAPI() and awaits it
awaitMusicAPI(w, c) ==
  [waitForMusicAPI(w) EXCEPT !.tasks[c].pc = "awaitingAPI",
                             !.tasks[c].on = Len(w.tasks) + 1,
                             !.tasks[Len(w.tasks) + 1].by = c]

\* the retry delay is over: i++ and the loop goes on
waitSlept(w, t) == waitIteration([w EXCEPT !.tasks[t].i = @ + 1], t)

\* the retry delays that remain, one after another, while nothing else
\* changes the world
RECURSIVE waitSleptOut(_, _)
waitSleptOut(w, t) ==
  IF w.tasks[t].pc = "done" THEN w ELSE waitSleptOut(waitSlept(w, t), t)

\* requestAuthorization() has settled: "ready" (granted, the API is up),
\* "notReady" (granted, the API is not up yet), "denied" or "failed"; when
\* granted, authorize() calls waitForMusicAPI() and awaits it.  A grant
\* never takes down an API that is up
requestSettled(w, c, outcome) ==
  CASE outcome \in {"ready", "notReady"} ->
         awaitMusicAPI([Answered(w, c, "fulfilled") EXCEPT
                          !.musicKit.isAuthorized = TRUE,
                          !.musicKit.ready = (w.musicKit.ready \/ outcome = "ready")],
                       c)
    [] outcome = "denied" -> Finish(Answered(w, c, "fulfilled"), c, "false")
    [] outcome = "failed" -> Finish(Answered(w, c, "rejected"), c, "false")

\* the waitForMusicAPI() that authorize() awaits has returned: false ends
\* authorize() with false, true sends the storefront request
authorizeApiWaited(w, c) ==
  IF w.tasks[w.tasks[c].on].result = "true" THEN Send(w, "storefront", c, "storefront")
  ELSE Finish(w, c, "false")

\* the storefront request has settled; a failure is only logged
storefrontSettled(w, c, resolved) ==
  Finish(Answered(w, c, IF resolved THEN "fulfilled" ELSE "rejected"), c, "true")

(***************************************************************************)
(* patchPlaylist (lib/apple.ts)                                             *)
(***************************************************************************)
\* executeMutation sends a request for the mutation: add with tracks,
\* remove with a track id, rename with a name; moveTrack sends nothing and
\* any other op is only logged
sends(mutation) ==
  CASE mutation.op = "add" -> "tracks" \in DOMAIN mutation
    [] mutation.op = "remove" -> "trackId" \in DOMAIN mutation /\ mutation.trackId # ""
    [] mutation.op = "rename" -> "name" \in DOMAIN mutation /\ mutation.name # ""
    [] OTHER -> FALSE

\* addTracks, removeTrack or renamePlaylist sends its request for
\* operation i of task t, which awaits it
sendMutation(w, t) ==
  [w EXCEPT !.musicKit.requests =
              Append(@, [kind |-> w.tasks[t].operations[w.tasks[t].i].op, by |-> t,
                         status |-> "pending", playlist |-> w.tasks[t].id,
                         index |-> w.tasks[t].i]),
            !.tasks[t].pc = "awaiting",
            !.tasks[t].on = Len(w.musicKit.requests) + 1]

\* the for loop of patchPlaylist from operation i on, up to the next
\* request: operations that send nothing are passed, an operation that
\* would send one throws when the user is not authorized
RECURSIVE patchLoop(_, _)
patchLoop(w, t) ==
  LET task == w.tasks[t] IN
  IF task.i > Len(task.operations) THEN Finish(w, t, "fulfilled")
  ELSE IF ~sends(task.operations[task.i])
       THEN patchLoop([w EXCEPT !.tasks[t].i = @ + 1], t)
  ELSE IF ~isAuthorized(w) THEN Finish(w, t, "rejected")
  ELSE sendMutation(w, t)

\* patchPlaylist(id, operations) up to its first await
patchPlaylist(w, id, operations) ==
  LET task == [fn |-> "patchPlaylist", pc |-> "running", on |-> 0, result |-> "pending",
               i |-> 1, by |-> 0, id |-> id, operations |-> operations]
  IN IF ~isAuthorized(w)
     THEN Spawn(w, [task EXCEPT !.pc = "done", !.result = "rejected"])
     ELSE patchLoop(Spawn(w, task), Len(w.tasks) + 1)

mutationSettledGoesOn(w, t, resolved) ==
  patchLoop([Answered(w, t, IF resolved THEN "fulfilled" ELSE "rejected")
               EXCEPT !.tasks[t].i = @ + 1], t)

\* the request of operation i has settled: the loop goes on when it
\* resolved, patchPlaylist throws 'Failed to update playlist' when it
\* rejected
mutationSettled(w, t, resolved) ==
  IF resolved
  THEN patchLoop([Answered(w, t, "fulfilled") EXCEPT !.tasks[t].i = @ + 1], t)
  ELSE Finish(Answered(w, t, "rejected"), t, "rejected")

(***************************************************************************)
(* Developer tokens (lib/jwt.ts, lib/jwt-browser.ts)                        *)
(***************************************************************************)
\* expiresIn: '180d', in the seconds jsonwebtoken adds to iat
expiresIn == 180 * 24 * 60 * 60

\* Date.now() is s * 1000 + ms milliseconds: s whole seconds and the ms
\* milliseconds (0..999) of the running second
DateNow(s, ms) == [s |-> s, ms |-> ms]

\* Math.floor(Date.now() / 1000)
floorSeconds(clock) == clock.s + (clock.ms \div 1000)

\* a private key string: with or without the PEM header lines, its body a
\* valid key, not a key, or nothing at all; '' has no header and no body
Key(header, body) == [header |-> header, body |-> body]

\* !privateKey
emptyKey(key) == ~key.header /\ key.body = ""

\* formattedKey: a key without the header line is wrapped in the PEM lines
formattedKey(privateKey) ==
  IF privateKey.header THEN privateKey ELSE Key(TRUE, privateKey.body)

\* JSON.stringify(object) and the text of something that is not JSON
JSONstringify(object) == [json |-> TRUE, object |-> object]

NotJSON == [json |-> FALSE, object |-> [sig |-> "ES256"]]

\* one segment of a token: text in the URL alphabet of base64 (- and _),
\* in the standard alphabet (+ and /), or not base64 at all
base64url(text) == [alphabet |-> "url", text |-> text]

\* generateAppleMusicJWT did not return
NoToken == <<>>

MissingConfiguration == "Missing required JWT configuration"

FailedToGenerate == "Failed to generate Apple Music JWT"

\* jwt.sign({iss}, key, {algorithm: 'ES256', expiresIn: '180d', keyid}): iat
\* is the second of the call and exp is iat + expiresIn; a key that is not
\* an EC private key in PEM form makes it throw
sign(iss, key, keyid, clock) ==
  IF key.header /\ key.body = "valid"
  THEN [token |-> << base64url(JSONstringify([alg |-> "ES256", typ |-> "JWT", kid |-> keyid])),
                     base64url(JSONstringify([iss |-> iss,
                                              iat |-> floorSeconds(clock),
                                              exp |-> floorSeconds(clock) + expiresIn])),
                     base64url(NotJSON) >>,
        thrown |-> ""]
  ELSE [token |-> NoToken, thrown |-> FailedToGenerate]

generateAppleMusicJWTKeyIdUnchecked(config, clock) ==
  IF emptyKey(config.privateKey) \/ config.teamId = ""
  THEN [token |-> NoToken, thrown |-> MissingConfiguration]
  ELSE sign(config.teamId, formattedKey(config.privateKey), config.keyId, clock)

\* generateAppleMusicJWT(config) called at clock: the token it returns, or
\* the error it throws
generateAppleMusicJWT(config, clock) ==
  IF emptyKey(config.privateKey) \/ config.keyId = "" \/ config.teamId = ""
  THEN [token |-> NoToken, thrown |-> MissingConfiguration]
  ELSE sign(config.teamId, formattedKey(config.privateKey), config.keyId, clock)

\* part.replace(/-/g, '+').replace(/_/g, '/')
replaceAlphabet(part) ==
  [part EXCEPT !.alphabet = IF @ = "url" THEN "std" ELSE @]

\* JSON.parse(atob(part.replace...)) throws: atob takes the standard
\* alphabet only and JSON.parse takes JSON only
parseThrows(part) ==
  replaceAlphabet(part).alphabet # "std" \/ ~part.text.json

parsePart(part) == part.text.object

\* decodeJWT of jwt-browser.ts: null unless the token has three parts whose
\* first two parse
decodeJWT(token) ==
  IF Len(token) # 3 \/ parseThrows(token[1]) \/ parseThrows(token[2])
  THEN [null |-> TRUE, header |-> [alg |-> "none"], payload |-> [iss |-> ""]]
  ELSE [null |-> FALSE, header |-> parsePart(token[1]), payload |-> parsePart(token[2])]

\* !decoded.payload.exp: no exp, or an exp of 0
noExp(payload) == "exp" \notin DOMAIN payload \/ payload.exp = 0

\* isJWTExpired(token) of jwt-browser.ts, called at clock
isJWTExpired(token, clock) ==
  LET decoded == decodeJWT(token) IN
  IF decoded.null \/ noExp(decoded.payload) THEN TRUE
  ELSE decoded.payload.exp < floorSeconds(clock)

\* no token generated, none checked, the clock at 0
InitJwt ==
  [clock |-> DateNow(0, 0), advances |-> 0, op |-> "none",
   config |-> [privateKey |-> Key(FALSE, ""), keyId |-> "", teamId |-> ""],
   token |-> NoToken, thrown |-> "", issued |-> DateNow(0, 0),
   checked |-> NoToken, expired |-> FALSE]

(***************************************************************************)
(* Inputs and bounds                                                        *)
(***************************************************************************)
PlaylistIds == {"p1", "p2"}
TrackIds == {"tA", "tB"}

\* number of store actions a behaviour of Spec, SpecCommits or SpecTracks runs
MaxSteps == 4

\* the operation that ran last: its name, the playlist it was called for
\* ("-" when it takes none) and whether it threw
Ran(op, id, threw) == [op |-> op, id |-> id, threw |-> threw]

Store(s) ==
  /\ entities' = s.entities
  /\ order' = s.order
  /\ selectedId' = s.selectedId
  /\ history' = s.history
  /\ historyIndex' = s.historyIndex
  /\ isDirty' = s.isDirty
  /\ now' = s.now
  /\ UNCHANGED <<heap, root, api, musicKit, tasks, jwt>>

\* one step of a behaviour bounded by MaxSteps
Tick == steps < MaxSteps /\ steps' = steps + 1

\* one store action that issues no remote call and settles none
Become(s) == Tick /\ Store(s) /\ UNCHANGED requests

Init ==
  /\ entities = InitState.entities
  /\ order = InitState.order
  /\ selectedId = InitState.selectedId
  /\ history = InitState.history
  /\ historyIndex = InitState.historyIndex
  /\ isDirty = InitState.isDirty
  /\ now = InitState.now
  /\ last = Ran("create", "-", FALSE)
  /\ steps = 0
  /\ heap = InitMachine.heap
  /\ root = InitMachine.root
  /\ requests = {}
  /\ api = InitApi
  /\ musicKit = InitMusicKit(FALSE)
  /\ tasks = <<>>
  /\ jwt = InitJwt

(***************************************************************************)
(* Actions: one per store action                                            *)
(***************************************************************************)
SelectPlaylist(id) ==
  Become(selectPlaylist(State, id)) /\ last' = Ran("selectPlaylist", id, FALSE)

AddPlaylist(playlist) ==
  Become(addPlaylist(State, playlist))
    /\ last' = Ran("addPlaylist", playlist.id, FALSE)

UpdatePlaylist(id, updates) ==
  Become(updatePlaylist(State, id, updates))
    /\ last' = Ran("updatePlaylist", id, FALSE)

DeletePlaylist(id) ==
  Become(deletePlaylist(State, id)) /\ last' = Ran("deletePlaylist", id, FALSE)

AddTrackToPlaylist(id, track) ==
  Become(addTrackToPlaylist(State, id, track))
    /\ last' = Ran("addTrackToPlaylist", id, FALSE)

RemoveTrackFromPlaylist(id, trackId) ==
  Become(removeTrackFromPlaylist(State, id, trackId))
    /\ last' = Ran("removeTrackFromPlaylist", id, removeTrackThrows(State, id, trackId))

MoveTrack(id, fromIndex, toIndex) ==
  Become(moveTrack(State, id, fromIndex, toIndex))
    /\ last' = Ran("moveTrack", id, FALSE)

ApplyMutations(id, mutations) ==
  LET r == applyMutations(State, id, mutations)
  IN  Become(r.s) /\ last' = Ran("applyMutations", id, r.threw)

CreateSnapshot(description) ==
  Become(createSnapshot(State, description))
    /\ last' = Ran("createSnapshot", "-", FALSE)

Undo == Become(undo(State)) /\ last' = Ran("undo", "-", FALSE)

Redo == Become(redo(State)) /\ last' = Ran("redo", "-", FALSE)

LoadPlaylists(playlists) ==
  Become(loadPlaylists(State, playlists))
    /\ last' = Ran("loadPlaylists", "-", FALSE)

SyncPlaylist(id, playlist) ==
  Become(syncPlaylist(State, id, playlist))
    /\ last' = Ran("syncPlaylist", id, FALSE)

PushChanges(id) ==
  Become(pushChanges(State, id)) /\ last' = Ran("pushChanges", id, FALSE)

(***************************************************************************)
(* Spec: the store with its history.  Playlists are added, loaded, pulled,  *)
(* edited (in committed batches and by uncommitted direct calls), deleted,  *)
(* undone and redone.                                                       *)
(***************************************************************************)
\* playlists as addPlaylist receives them and as the remote returns them
NewPlaylists == {[id |-> p, name |-> "Rock", tracks |-> <<>>] : p \in PlaylistIds}
RemotePlaylist(id) == [id |-> id, name |-> "Rock", tracks |-> <<"tB">>]
RemoteLists == {<<RemotePlaylist("p1"), RemotePlaylist("p2")>>, <<RemotePlaylist("p2")>>}

Batches ==
  {<<[op |-> "add", tracks |-> <<"tA">>]>>,
   <<[op |-> "rename", name |-> "Jazz"]>>,
   <<[op |-> "add", tracks |-> <<"tA", "tB">>], [op |-> "remove", trackId |-> "tB"]>>}

Next ==
  \/ \E id \in PlaylistIds \cup {NULL} : SelectPlaylist(id)
  \/ \E playlist \in NewPlaylists : AddPlaylist(playlist)
  \/ \E id \in PlaylistIds : UpdatePlaylist(id, [name |-> "Jazz"])
  \/ \E id \in PlaylistIds : DeletePlaylist(id)
  \/ \E id \in PlaylistIds : AddTrackToPlaylist(id, "tA")
  \/ \E id \in PlaylistIds : RemoveTrackFromPlaylist(id, "tA")
  \/ \E id \in PlaylistIds : MoveTrack(id, 1, 0)
  \/ \E id \in PlaylistIds, ms \in Batches : ApplyMutations(id, ms)
  \/ CreateSnapshot("snapshot")
  \/ Undo
  \/ Redo
  \/ \E ps \in RemoteLists : LoadPlaylists(ps)
  \/ \E id \in PlaylistIds : SyncPlaylist(id, RemotePlaylist(id))
  \/ \E id \in PlaylistIds : PushChanges(id)

Spec == Init /\ [][Next]_vars

(***************************************************************************)
(* SpecCommits: only the operations that commit (each ends by taking a      *)
(* snapshot), with undo and redo.                                           *)
(***************************************************************************)
NextCommits ==
  \/ \E playlist \in NewPlaylists : AddPlaylist(playlist)
  \/ \E id \in PlaylistIds : DeletePlaylist(id)
  \/ \E id \in PlaylistIds, ms \in Batches : ApplyMutations(id, ms)
  \/ \E ps \in RemoteLists : LoadPlaylists(ps)
  \/ Undo
  \/ Redo

SpecCommits == Init /\ [][NextCommits]_vars

(***************************************************************************)
(* Undo and redo                                                            *)
(***************************************************************************)
\* what a snapshot holds, the history and the selection are the same in a and b
SameContent(a, b) ==
  /\ a.entities = b.entities
  /\ a.order = b.order
  /\ a.selectedId = b.selectedId
  /\ a.history = b.history
  /\ a.historyIndex = b.historyIndex

\* every playlist has the same dirty flag in a and b
SameDirty(a, b) == \A id \in PlaylistIds : Dirty(a, id) = Dirty(b, id)

\* C1 as stated: in a state reached by commits in which undo is possible,
\* undo() then redo() restores the state present before the undo(), dirty
\* flags included.
C1_UndoRedoRestoresState ==
  [][(last'.op = "undo" /\ canUndo(State) /\ last.op \notin {"undo", "redo"})
       => (SameContent(redo(State'), State) /\ SameDirty(redo(State'), State))]_vars

\* C1 amended: in a state reached by commits, undos and redos in which undo
\* is possible, undo() then redo() restores entities, order, selection,
\* history and cursor of the state present before the undo(); the dirty flags
\* are not restored: no playlist is dirty afterwards.
C1_UndoRedoRestoresContent ==
  [][(last'.op = "undo" /\ canUndo(State))
       => (/\ SameContent(redo(State'), State)
           /\ \A id \in PlaylistIds : ~Dirty(redo(State'), id))]_vars

\* an undo has moved the cursor back from a snapshot that redo can return to
C1_Witness ==
  /\ last.op = "undo"
  /\ canRedo(State)
  /\ history[historyIndex + 2].entities # entities

\* C2: history is empty exactly while historyIndex is -1, and otherwise
\* 0 <= historyIndex < history.length.
C2_CursorInRange ==
  /\ history = <<>> => historyIndex = -1
  /\ history # <<>> => (0 <= historyIndex /\ historyIndex < Len(history))

\* an undo has run at the first snapshot of a history of several
C2_Witness ==
  /\ last.op = "undo"
  /\ historyIndex = 0
  /\ Len(history) >= 2

\* a step that takes a snapshot: the clock of createSnapshot advances
TakesSnapshot == now' = now + 1

\* C3: a snapshot taken while the cursor is not at the last index discards
\* every snapshot after the cursor, appends the new one, leaves the cursor on
\* it, and redo is then impossible and changes nothing.
C3_Truncation ==
  [][(TakesSnapshot /\ canRedo(State))
       => (/\ Len(history') = historyIndex + 2
           /\ SubSeq(history', 1, historyIndex + 1) = SubSeq(history, 1, historyIndex + 1)
           /\ history'[Len(history')].timestamp = now'
           /\ history'[Len(history')].entities = entities'
           /\ history'[Len(history')].order = order'
           /\ historyIndex' = Len(history') - 1
           /\ ~canRedo(State')
           /\ redo(State') = State')]_vars

\* a commit has just discarded a snapshot: the last two stamps are not consecutive
C3_Witness ==
  /\ last.op \in {"addPlaylist", "deletePlaylist", "applyMutations",
                  "loadPlaylists", "createSnapshot"}
  /\ Len(history) >= 2
  /\ historyIndex = Len(history) - 1
  /\ history[Len(history)].timestamp > history[Len(history) - 1].timestamp + 1

\* C6: undo at the first snapshot (or with no history) and redo at the last
\* snapshot change nothing of the store, dirty flags included; canUndo and
\* canRedo are true exactly when undo and redo move the cursor.
C6_NoOpAtEnds ==
  [][/\ (last'.op = "undo" /\ historyIndex <= 0) => State' = State
     /\ (last'.op = "redo" /\ historyIndex >= Len(history) - 1) => State' = State
     /\ canUndo(State) <=> undo(State).historyIndex # historyIndex
     /\ canRedo(State) <=> redo(State).historyIndex # historyIndex]_vars

\* an undo has run where it could not move, and a dirty flag is still set
C6_Witness ==
  /\ last.op = "undo"
  /\ historyIndex = 0
  /\ \E id \in PlaylistIds : Dirty(State, id)

\* C7: an undo or redo that moves the cursor moves it by one and leaves
\* entities and order equal to those of the snapshot at the new cursor,
\* whatever the live state held.
C7_RestoresSnapshot ==
  [][/\ (last'.op = "undo" /\ canUndo(State)) => historyIndex' = historyIndex - 1
     /\ (last'.op = "redo" /\ canRedo(State)) => historyIndex' = historyIndex + 1
     /\ ((last'.op = "undo" /\ canUndo(State)) \/ (last'.op = "redo" /\ canRedo(State)))
          => (/\ history' = history
              /\ entities' = history[historyIndex' + 1].entities
              /\ order' = history[historyIndex' + 1].order)]_vars

\* an undo has moved the cursor to a snapshot that differs from the next one
C7_Witness ==
  /\ last.op = "undo"
  /\ canRedo(State)
  /\ entities = history[historyIndex + 1].entities
  /\ history[historyIndex + 1].entities # history[historyIndex + 2].entities

\* C8: after an undo or redo that moves the cursor the dirty map is empty.
C8_UndoRedoCleans ==
  [][((last'.op = "undo" /\ canUndo(State)) \/ (last'.op = "redo" /\ canRedo(State)))
       => isDirty' = EmptyObj]_vars

\* an undo has moved the cursor between two snapshots that hold the same p1
\* and different p2
C8_Witness ==
  /\ last.op = "undo"
  /\ canRedo(State)
  /\ isDirty = EmptyObj
  /\ {"p1", "p2"} \subseteq DOMAIN entities
  /\ {"p1", "p2"} \subseteq DOMAIN history[historyIndex + 2].entities
  /\ history[historyIndex + 2].entities["p1"] = entities["p1"]
  /\ history[historyIndex + 2].entities["p2"] # entities["p2"]

(***************************************************************************)
(* SpecCap and SpecEvict: the history at its capacity.  The store stays     *)
(* empty and snapshots are taken by createSnapshot alone, so that more than *)
(* MaxHistory of them fit a run; these actions are not counted in steps.    *)
(* SpecCap follows undo and redo once the history is within one snapshot of *)
(* its capacity; SpecEvict has no undo.                                     *)
(***************************************************************************)
\* number of snapshots taken in a behaviour of SpecCap and SpecEvict
MaxCapCommits == 52

CapBecome(s) == s.now <= MaxCapCommits /\ UNCHANGED <<steps, requests>> /\ Store(s)

CapCreateSnapshot ==
  CapBecome(createSnapshot(State, "snapshot")) /\ last' = Ran("createSnapshot", "-", FALSE)

CapUndo ==
  /\ Len(history) >= MaxHistory - 1
  /\ CapBecome(undo(State))
  /\ last' = Ran("undo", "-", FALSE)

CapRedo ==
  /\ Len(history) >= MaxHistory - 1
  /\ CapBecome(redo(State))
  /\ last' = Ran("redo", "-", FALSE)

CapSelectPlaylist(id) ==
  CapBecome(selectPlaylist(State, id)) /\ last' = Ran("selectPlaylist", id, FALSE)

NextCap == CapCreateSnapshot \/ CapUndo \/ CapRedo

SpecCap == Init /\ [][NextCap]_vars

NextEvict ==
  \/ CapCreateSnapshot
  \/ \E id \in PlaylistIds \cup {NULL} : CapSelectPlaylist(id)

SpecEvict == Init /\ [][NextEvict]_vars

\* C4: history never holds more than 50 snapshots; a snapshot taken when the
\* history is full with the cursor at its end drops the oldest snapshot and
\* leaves the cursor on the new one.
C4_Capacity ==
  [][/\ Len(history') <= MaxHistory
     /\ (TakesSnapshot /\ Len(history) = MaxHistory /\ historyIndex = MaxHistory - 1)
          => (/\ SubSeq(history', 1, MaxHistory - 1) = Tail(history)
              /\ Len(history') = MaxHistory
              /\ historyIndex' = MaxHistory - 1
              /\ history'[historyIndex' + 1].timestamp = now')]_vars

\* a snapshot has been taken on a full history: the first one is gone
C4_Witness ==
  /\ last.op = "createSnapshot"
  /\ Len(history) = MaxHistory
  /\ historyIndex = MaxHistory - 1
  /\ history[1].timestamp > 1

\* C5: after N commits and no undo the history holds the last min(N, 50)
\* commits in commit order: its i-th snapshot is commit number
\* max(N - 50, 0) + i; after 51 commits it holds 50, the oldest being commit 2.
C5_EvictionOrder ==
  /\ Len(history) = Min(now, MaxHistory)
  /\ \A i \in 1..Len(history) : history[i].timestamp = Max(now - MaxHistory, 0) + i
  /\ now = MaxHistory + 1 => (Len(history) = MaxHistory /\ history[1].timestamp = 2)

\* the 51st commit has been made
C5_Witness ==
  /\ last.op = "createSnapshot"
  /\ now = MaxHistory + 1
  /\ history[1].timestamp = 2

(***************************************************************************)
(* SpecTracks: the track primitives called directly, on playlists that      *)
(* addPlaylist puts in the store with or without tracks (one of them holds  *)
(* the same track twice); pushChanges marks a playlist clean again.         *)
(***************************************************************************)
TrackPlaylists ==
  [id : PlaylistIds, name : {"Rock"}, tracks : {<<>>, <<"tA", "tB", "tA">>}]

\* fromIndex and toIndex: inside the sequences, negative, and past their end
Indices == -1..3

\* the batch [{op: 'remove', trackId}]
RemoveBatch(trackId) == <<[op |-> "remove", trackId |-> trackId]>>

NextTracks ==
  \/ \E playlist \in TrackPlaylists : AddPlaylist(playlist)
  \/ \E id \in PlaylistIds : UpdatePlaylist(id, [name |-> "Jazz"])
  \/ \E id \in PlaylistIds, t \in TrackIds : AddTrackToPlaylist(id, t)
  \/ \E id \in PlaylistIds, t \in TrackIds : RemoveTrackFromPlaylist(id, t)
  \/ \E id \in PlaylistIds, i, j \in Indices : MoveTrack(id, i, j)
  \/ \E id \in PlaylistIds, t \in TrackIds : ApplyMutations(id, RemoveBatch(t))
  \/ \E id \in PlaylistIds : PushChanges(id)

SpecTracks == Init /\ [][NextTracks]_vars

\* the dirty flag of every playlist but id is the same before and after the step
OtherFlagsUnchanged(id) ==
  \A other \in PlaylistIds \ {id} :
    /\ (other \in DOMAIN isDirty') = (other \in DOMAIN isDirty)
    /\ other \in DOMAIN isDirty => isDirty'[other] = isDirty[other]

TrackPrimitives ==
  {"addTrackToPlaylist", "removeTrackFromPlaylist", "moveTrack", "updatePlaylist"}

\* C9: after addTrackToPlaylist, removeTrackFromPlaylist, moveTrack or
\* updatePlaylist on a playlist of the store that playlist is dirty, and the
\* dirty flag of every other playlist is unchanged.
C9_DirtyPropagation ==
  [][(last'.op \in TrackPrimitives /\ last'.id \in DOMAIN entities)
       => (Dirty(State', last'.id) /\ OtherFlagsUnchanged(last'.id))]_vars

\* what the code keeps of C9: the same, for the calls that return normally
C9_DirtyUnlessThrown ==
  [][(last'.op \in TrackPrimitives /\ last'.id \in DOMAIN entities /\ ~last'.threw)
       => (Dirty(State', last'.id) /\ OtherFlagsUnchanged(last'.id))]_vars

\* the sequence without its first element equal to x
RECURSIVE RemoveFirst(_, _)
RemoveFirst(s, x) ==
  IF s = <<>> THEN <<>>
  ELSE IF Head(s) = x THEN Tail(s) ELSE <<Head(s)>> \o RemoveFirst(Tail(s), x)

Occurs(s, x) == \E i \in 1..Len(s) : s[i] = x

\* C10: removeTrackFromPlaylist(playlistId, trackId) on a playlist that holds
\* trackId removes its first occurrence only: the later occurrences stay, in
\* order, and the length decreases by one.
C10_RemovesFirstOnly ==
  [][\A id \in PlaylistIds, t \in TrackIds :
       (/\ RemoveTrackFromPlaylist(id, t)
        /\ id \in DOMAIN entities
        /\ Occurs(TracksOf(entities[id]), t)
        /\ ~removeTrackThrows(State, id, t))
         => (/\ TracksOf(entities'[id]) = RemoveFirst(TracksOf(entities[id]), t)
             /\ Len(TracksOf(entities'[id])) = Len(TracksOf(entities[id])) - 1)]_vars

\* what the code does: every occurrence of trackId is removed
C10_RemovesAll ==
  [][\A id \in PlaylistIds, t \in TrackIds :
       (/\ RemoveTrackFromPlaylist(id, t)
        /\ id \in DOMAIN entities
        /\ ~removeTrackThrows(State, id, t))
         => ~Occurs(TracksOf(entities'[id]), t)]_vars

\* a removal of trackId from playlist id, called directly or as the batch
\* [{op: 'remove', trackId}] of applyMutations
RemovalStep(id, trackId) ==
  RemoveTrackFromPlaylist(id, trackId) \/ ApplyMutations(id, RemoveBatch(trackId))

\* C11: removing a track identifier that the playlist does not hold, directly
\* or through applyMutations with a remove mutation, never throws and leaves
\* the track sequence unchanged, and a playlist that was dirty stays dirty.
C11_IdempotentRemove ==
  [][\A id \in PlaylistIds, t \in TrackIds :
       (/\ RemovalStep(id, t)
        /\ id \in DOMAIN entities
        /\ ~Occurs(TracksOf(entities[id]), t))
         => (/\ ~last'.threw
             /\ TracksOf(entities'[id]) = TracksOf(entities[id])
             /\ (Dirty(State, id) => Dirty(State', id)))]_vars

\* what the code keeps of C11: the same, on the track sequences that hold no
\* undefined entry (moveTrack inserts one when fromIndex is past the end)
C11_IdempotentUnlessUndefined ==
  [][\A id \in PlaylistIds, t \in TrackIds :
       (/\ RemovalStep(id, t)
        /\ id \in DOMAIN entities
        /\ ~Occurs(TracksOf(entities[id]), t)
        /\ ~Occurs(TracksOf(entities[id]), UNDEFINED))
         => (/\ ~last'.threw
             /\ TracksOf(entities'[id]) = TracksOf(entities[id])
             /\ (Dirty(State, id) => Dirty(State', id)))]_vars

\* the sequence without its element at index i (from 0), and the sequence
\* with x put in front of its element at index i (from 0)
RemoveAt(s, i) == SubSeq(s, 1, i) \o SubSeq(s, i + 2, Len(s))
InsertAt(s, i, x) == SubSeq(s, 1, i) \o <<x>> \o SubSeq(s, i + 1, Len(s))

\* toIndex clamped to the positions of a sequence of length len
Clamp(toIndex, len) == Max(0, Min(toIndex, len))

\* C12: moveTrack(playlistId, fromIndex, toIndex) with fromIndex inside the
\* sequence removes the element at fromIndex and reinserts it at toIndex
\* clamped to the valid range; with fromIndex negative or >= the length the
\* track sequence is unchanged and holds no undefined entry it did not hold.
C12_MoveOrNoOp ==
  [][\A id \in PlaylistIds, i, j \in Indices :
       (MoveTrack(id, i, j) /\ id \in DOMAIN entities)
         => LET tracks == TracksOf(entities[id])
                rest == RemoveAt(tracks, i)
            IN  IF i >= 0 /\ i < Len(tracks)
                THEN TracksOf(entities'[id]) =
                       InsertAt(rest, Clamp(j, Len(rest)), tracks[i + 1])
                ELSE TracksOf(entities'[id]) = tracks]_vars

\* what the code keeps of C12: the same, for fromIndex inside the sequence
\* and toIndex not negative
C12_MoveInRange ==
  [][\A id \in PlaylistIds, i, j \in Indices :
       (/\ MoveTrack(id, i, j)
        /\ id \in DOMAIN entities
        /\ i >= 0 /\ i < Len(TracksOf(entities[id]))
        /\ j >= 0)
         => LET tracks == TracksOf(entities[id])
                rest == RemoveAt(tracks, i)
            IN  TracksOf(entities'[id]) =
                  InsertAt(rest, Clamp(j, Len(rest)), tracks[i + 1])]_vars

NoDuplicates(s) == \A i, j \in 1..Len(s) : s[i] = s[j] => i = j

\* C13: addPlaylist(p) puts p into entities with a false dirty flag and
\* appends p.id to order only if order does not hold it, and after every
\* operation order holds no playlist identifier twice.
C13_AppendsIfAbsent ==
  [][/\ NoDuplicates(order')
     /\ \A playlist \in NewPlaylists :
          AddPlaylist(playlist)
            => (/\ entities'[playlist.id] = playlist
                /\ ~Dirty(State', playlist.id)
                /\ order' = IF Occurs(order, playlist.id) THEN order
                            ELSE Append(order, playlist.id))]_vars

\* what the code does: addPlaylist appends p.id to order in every case
C13_AppendsAlways ==
  [][\A playlist \in NewPlaylists :
       AddPlaylist(playlist)
         => (/\ entities'[playlist.id] = playlist
             /\ ~Dirty(State', playlist.id)
             /\ order' = Append(order, playlist.id))]_vars

\* the identifiers of s other than id, in the order of s
Except(s, id) == SelectSeq(s, LAMBDA x : x # id)

\* C14: deletePlaylist(id) removes id from entities, order and the dirty
\* map, sets selectedId to null exactly when it was id, and leaves the
\* entity, the relative position in order and the dirty flag of every other
\* playlist unchanged.
C14_DeletePlaylist ==
  [][\A id \in PlaylistIds :
       DeletePlaylist(id)
         => (/\ id \notin DOMAIN entities'
             /\ ~Occurs(order', id)
             /\ id \notin DOMAIN isDirty'
             /\ selectedId' = IF selectedId = id THEN NULL ELSE selectedId
             /\ Except(order', id) = Except(order, id)
             /\ OtherFlagsUnchanged(id)
             /\ \A other \in PlaylistIds \ {id} :
                  /\ (other \in DOMAIN entities') = (other \in DOMAIN entities)
                  /\ other \in DOMAIN entities => entities'[other] = entities[other])]_vars

\* deletePlaylist has removed a playlist that the snapshot before held, and
\* another playlist, dirty, is still in the store
C14_Witness ==
  /\ last.op = "deletePlaylist"
  /\ historyIndex >= 1
  /\ last.id \in DOMAIN history[historyIndex].entities
  /\ last.id \notin DOMAIN entities
  /\ \E other \in DOMAIN entities : Dirty(State, other) /\ Occurs(order, other)

AbsentOps ==
  {"updatePlaylist", "addTrackToPlaylist", "removeTrackFromPlaylist", "moveTrack",
   "deletePlaylist", "applyMutations"}

SameFlags(a, b) == \A id \in PlaylistIds : Dirty(a, id) = Dirty(b, id)

\* C15: updatePlaylist, addTrackToPlaylist, removeTrackFromPlaylist,
\* moveTrack, deletePlaylist and applyMutations (with any batch, a rename
\* included) on a playlist identifier that is not in the store never throw
\* and change neither entities, order nor the dirty flags.
C15_AbsentIsNoOp ==
  [][(last'.op \in AbsentOps /\ last'.id \notin DOMAIN entities)
       => (/\ ~last'.threw
           /\ entities' = entities
           /\ order' = order
           /\ SameFlags(State', State))]_vars

\* what the code keeps of C15: a call that returns normally changes neither
\* entities nor order and makes no playlist dirty (deletePlaylist drops the
\* flag that loadPlaylists left behind for a playlist no longer in the store)
C15_AbsentKeepsEntities ==
  [][(last'.op \in AbsentOps /\ last'.id \notin DOMAIN entities /\ ~last'.threw)
       => (/\ entities' = entities
           /\ order' = order
           /\ \A id \in PlaylistIds : Dirty(State', id) => Dirty(State, id))]_vars

(***************************************************************************)
(* SpecBatch: applyMutations with every batch of at most MaxBatch of the    *)
(* mutations below, on playlists that addPlaylist puts in the store and on  *)
(* identifiers that are not in it; undo and redo move the cursor, so that a *)
(* batch is also committed in the middle of the history.                   *)
(***************************************************************************)
MaxBatch == 2

\* mutations that applyMutations handles ...
HandledMutations ==
  { [op |-> "add", tracks |-> <<"tA", "tB">>],
    [op |-> "remove", trackId |-> "tA"],
    [op |-> "move", fromIndex |-> 1, toIndex |-> 0],
    [op |-> "move", fromIndex |-> 3, toIndex |-> 0],
    [op |-> "rename", name |-> "Jazz"] }

\* ... and mutations it has no case for, or whose fields are missing
SkippedMutations ==
  { [op |-> "create", name |-> "Jazz"],
    [op |-> "remove"] }

BatchMutations == HandledMutations \cup SkippedMutations

AllBatches == UNION {[1..n -> BatchMutations] : n \in 0..MaxBatch}

NextBatch ==
  \/ \E playlist \in TrackPlaylists : AddPlaylist(playlist)
  \/ \E id \in PlaylistIds, mutations \in AllBatches : ApplyMutations(id, mutations)
  \/ Undo
  \/ Redo

SpecBatch == Init /\ [][NextBatch]_vars

(***************************************************************************)
(* SpecReplay: applyMutations as a function of the store state and the      *)
(* batch.  A behaviour starts in a state that at most MaxStartCalls store   *)
(* actions have made of the initial state, and is one call of               *)
(* applyMutations on playlist p1 with a batch of AllBatches; last records   *)
(* the batch of the call.                                                   *)
(***************************************************************************)
MaxStartCalls == 2

\* the states that one store action makes of s
StoreCalls(s) ==
  {addPlaylist(s, playlist) : playlist \in TrackPlaylists}
    \cup {moveTrack(s, "p1", fromIndex, 0) : fromIndex \in {1, 3}}
    \cup {addTrackToPlaylist(s, "p1", "tB"), deletePlaylist(s, "p1"),
          pushChanges(s, "p1"), undo(s)}

RECURSIVE StartsAfter(_)
StartsAfter(n) ==
  IF n = 0 THEN {InitState}
  ELSE LET before == StartsAfter(n - 1)
       IN  before \cup UNION {StoreCalls(s) : s \in before}

ReplayStarts == StartsAfter(MaxStartCalls)

InitReplay ==
  /\ \E s \in ReplayStarts :
       /\ entities = s.entities
       /\ order = s.order
       /\ selectedId = s.selectedId
       /\ history = s.history
       /\ historyIndex = s.historyIndex
       /\ isDirty = s.isDirty
       /\ now = s.now
  /\ last = Ran("create", "-", FALSE)
  /\ steps = 0
  /\ heap = InitMachine.heap
  /\ root = InitMachine.root
  /\ requests = {}
  /\ api = InitApi
  /\ musicKit = InitMusicKit(FALSE)
  /\ tasks = <<>>
  /\ jwt = InitJwt

\* applyMutations(id, mutations) as the one call of a behaviour, with the
\* batch recorded in last
ApplyBatch(id, mutations) ==
  LET r == applyMutations(State, id, mutations)
  IN  /\ steps = 0
      /\ steps' = 1
      /\ Store(r.s)
      /\ UNCHANGED requests
      /\ last' = [op |-> "applyMutations", id |-> id, threw |-> r.threw,
                  mutations |-> mutations]

NextReplay == \E mutations \in AllBatches : ApplyBatch("p1", mutations)

SpecReplay == InitReplay /\ [][NextReplay]_vars

\* C16: every call of applyMutations takes exactly one snapshot, after the
\* last mutation of the batch, whatever the batch holds: the history is the
\* part up to the cursor plus one snapshot, which records the entities and
\* order the batch has left.
C16_OneSnapshotPerBatch ==
  [][last'.op = "applyMutations"
       => (/\ now' = now + 1
           /\ Len(history') = historyIndex + 2
           /\ historyIndex' = historyIndex + 1
           /\ history'[historyIndex' + 1].entities = entities'
           /\ history'[historyIndex' + 1].order = order')]_vars

\* what the code keeps of C16: the same, for the batches that do not throw
C16_OneSnapshotUnlessThrown ==
  [][(last'.op = "applyMutations" /\ ~last'.threw)
       => (/\ now' = now + 1
           /\ Len(history') = historyIndex + 2
           /\ historyIndex' = historyIndex + 1
           /\ history'[historyIndex' + 1].entities = entities'
           /\ history'[historyIndex' + 1].order = order')]_vars

\* the calls of the primitives that correspond to a mutation: one
\* addTrackToPlaylist per track of an add, in the order of the tracks; none
\* for a mutation without a primitive
CallsOf(mutation) ==
  IF mutation.op = "add" /\ "tracks" \in DOMAIN mutation
  THEN [i \in 1..Len(mutation.tracks) |->
          [fn |-> "addTrackToPlaylist", arg |-> <<mutation.tracks[i]>>]]
  ELSE IF mutation.op = "remove" /\ "trackId" \in DOMAIN mutation
  THEN <<[fn |-> "removeTrackFromPlaylist", arg |-> <<mutation.trackId>>]>>
  ELSE IF mutation.op = "move" /\ {"fromIndex", "toIndex"} \subseteq DOMAIN mutation
  THEN <<[fn |-> "moveTrack", arg |-> <<mutation.fromIndex, mutation.toIndex>>]>>
  ELSE IF mutation.op = "rename" /\ "name" \in DOMAIN mutation
  THEN <<[fn |-> "updatePlaylist", arg |-> <<mutation.name>>]>>
  ELSE <<>>

RECURSIVE Calls(_)
Calls(mutations) ==
  IF mutations = <<>> THEN <<>>
  ELSE CallsOf(Head(mutations)) \o Calls(Tail(mutations))

\* the store after the calls have run one after another on playlistId, each
\* on the state the one before has left; an exception ends the run
RECURSIVE RunCalls(_, _, _)
RunCalls(s, playlistId, calls) ==
  IF calls = <<>> THEN s
  ELSE LET call == Head(calls)
           rest == Tail(calls)
       IN  CASE call.fn = "addTrackToPlaylist" ->
                  RunCalls(addTrackToPlaylist(s, playlistId, call.arg[1]), playlistId, rest)
             [] call.fn = "removeTrackFromPlaylist" ->
                  IF removeTrackThrows(s, playlistId, call.arg[1]) THEN s
                  ELSE RunCalls(removeTrackFromPlaylist(s, playlistId, call.arg[1]),
                                playlistId, rest)
             [] call.fn = "moveTrack" ->
                  RunCalls(moveTrack(s, playlistId, call.arg[1], call.arg[2]),
                           playlistId, rest)
             [] call.fn = "updatePlaylist" ->
                  RunCalls(updatePlaylist(s, playlistId, [name |-> call.arg[1]]),
                           playlistId, rest)

\* C17: applyMutations processes the batch in array order: the entities and
\* dirty flags it leaves are those left by the corresponding primitives
\* called one after another in that order; an add of t1..tn appends t1..tn
\* in that order after the existing tracks and makes the playlist dirty.
C17_ArrayOrder ==
  [][last'.op = "applyMutations"
       => LET id == last'.id
              mutations == last'.mutations
              after == RunCalls(State, id, Calls(mutations))
          IN  /\ entities' = after.entities
              /\ isDirty' = after.isDirty
              /\ order' = order
              /\ \A m \in HandledMutations :
                   (mutations = <<m>> /\ m.op = "add" /\ id \in DOMAIN entities)
                     => (/\ TracksOf(entities'[id]) = TracksOf(entities[id]) \o m.tracks
                         /\ Dirty(State', id))]_vars

\* the add of tA, tB followed by the move of index 1 to index 0 has turned
\* an empty track sequence into tB, tA (the move first would leave
\* undefined, tA, tB)
C17_Witness ==
  /\ last.op = "applyMutations"
  /\ ~last.threw
  /\ last.mutations = <<[op |-> "add", tracks |-> <<"tA", "tB">>],
                        [op |-> "move", fromIndex |-> 1, toIndex |-> 0]>>
  /\ historyIndex >= 1
  /\ last.id \in DOMAIN history[historyIndex].entities
  /\ TracksOf(history[historyIndex].entities[last.id]) = <<>>
  /\ TracksOf(entities[last.id]) = <<"tB", "tA">>
  /\ Dirty(State, last.id)

\* a mutation that applyMutations skips: a tag without a case in the switch,
\* or a required field that is missing
Skipped(mutation) ==
  \/ mutation.op \notin {"add", "remove", "move", "rename"}
  \/ mutation.op = "add" /\ "tracks" \notin DOMAIN mutation
  \/ mutation.op = "remove" /\ "trackId" \notin DOMAIN mutation
  \/ mutation.op = "move" /\ ~({"fromIndex", "toIndex"} \subseteq DOMAIN mutation)
  \/ mutation.op = "rename" /\ "name" \notin DOMAIN mutation

\* the batch without its skipped mutations
Effective(mutations) == SelectSeq(mutations, LAMBDA m : ~Skipped(m))

\* C18: a mutation with a tag that applyMutations does not handle, or with a
\* required field missing, is skipped and does not abort the batch: the batch
\* leaves the store as the batch without that mutation does, throws only if
\* that one throws, and otherwise takes its snapshot.
C18_SkippedNeverAborts ==
  [][last'.op = "applyMutations"
       => LET mutations == last'.mutations
              r == applyMutations(State, last'.id, Effective(mutations))
          IN  /\ entities' = r.s.entities
              /\ order' = r.s.order
              /\ isDirty' = r.s.isDirty
              /\ last'.threw = r.threw
              /\ ~r.threw
                   => (/\ now' = now + 1
                       /\ history'[historyIndex' + 1].entities = entities'
                       /\ history'[historyIndex' + 1].description =
                            "Applied " \o ToString(Len(mutations)) \o " mutations")]_vars

\* a batch of a mutation with the tag 'create' followed by an add has
\* appended tA, tB to the tracks tA, tB, tA and taken its snapshot
C18_Witness ==
  /\ last.op = "applyMutations"
  /\ ~last.threw
  /\ last.mutations = <<[op |-> "create", name |-> "Jazz"],
                        [op |-> "add", tracks |-> <<"tA", "tB">>]>>
  /\ historyIndex >= 1
  /\ history[historyIndex + 1].description = "Applied 2 mutations"
  /\ history[historyIndex + 1].entities = entities
  /\ last.id \in DOMAIN history[historyIndex].entities
  /\ history[historyIndex].entities[last.id] =
       [id |-> last.id, name |-> "Rock", tracks |-> <<"tA", "tB", "tA">>]
  /\ entities[last.id] =
       [id |-> last.id, name |-> "Rock", tracks |-> <<"tA", "tB", "tA", "tA", "tB">>]

(***************************************************************************)
(* SpecHeap: the store actions on the objects and references of heap and    *)
(* root.                                                                    *)
(***************************************************************************)
HeapBecome(m) ==
  /\ steps < MaxSteps
  /\ steps' = steps + 1
  /\ heap' = m.heap
  /\ root' = m.root
  /\ UNCHANGED <<entities, order, selectedId, history, historyIndex, isDirty, now, requests>>
  /\ UNCHANGED <<api, musicKit, tasks, jwt>>

HeapAddPlaylist(playlist) ==
  HeapBecome(addPlaylistOnHeap(Machine, playlist))
    /\ last' = Ran("addPlaylist", playlist.id, FALSE)

HeapUpdatePlaylist(id, updates) ==
  HeapBecome(updatePlaylistOnHeap(Machine, id, updates))
    /\ last' = Ran("updatePlaylist", id, FALSE)

HeapDeletePlaylist(id) ==
  HeapBecome(deletePlaylistOnHeap(Machine, id)) /\ last' = Ran("deletePlaylist", id, FALSE)

HeapAddTrackToPlaylist(id, track) ==
  HeapBecome(addTrackToPlaylistOnHeap(Machine, id, track))
    /\ last' = Ran("addTrackToPlaylist", id, FALSE)

HeapRemoveTrackFromPlaylist(id, trackId) ==
  HeapBecome(removeTrackFromPlaylistOnHeap(Machine, id, trackId))
    /\ last' = Ran("removeTrackFromPlaylist", id, FALSE)

HeapMoveTrack(id, fromIndex, toIndex) ==
  HeapBecome(moveTrackOnHeap(Machine, id, fromIndex, toIndex))
    /\ last' = Ran("moveTrack", id, FALSE)

HeapCreateSnapshot(description) ==
  HeapBecome(createSnapshotOnHeap(Machine, description))
    /\ last' = Ran("createSnapshot", "-", FALSE)

HeapUndo == HeapBecome(undoOnHeap(Machine)) /\ last' = Ran("undo", "-", FALSE)

HeapRedo == HeapBecome(redoOnHeap(Machine)) /\ last' = Ran("redo", "-", FALSE)

HeapLoadPlaylists(playlists) ==
  HeapBecome(loadPlaylistsOnHeap(Machine, playlists))
    /\ last' = Ran("loadPlaylists", "-", FALSE)

HeapSyncPlaylist(id, playlist) ==
  HeapBecome(syncPlaylistOnHeap(Machine, id, playlist))
    /\ last' = Ran("syncPlaylist", id, FALSE)

HeapPushChanges(id) ==
  HeapBecome(pushChangesOnHeap(Machine, id)) /\ last' = Ran("pushChanges", id, FALSE)

HeapPlaylists == {[id |-> "p1", name |-> "Rock", tracks |-> <<"tA", "tB">>]}

NextHeap ==
  \/ \E playlist \in HeapPlaylists : HeapAddPlaylist(playlist)
  \/ HeapUpdatePlaylist("p1", [name |-> "Jazz"])
  \/ HeapDeletePlaylist("p1")
  \/ HeapAddTrackToPlaylist("p1", "tA")
  \/ HeapRemoveTrackFromPlaylist("p1", "tA")
  \/ \E i \in {1, 2} : HeapMoveTrack("p1", i, 0)
  \/ HeapCreateSnapshot("snapshot")
  \/ HeapUndo
  \/ HeapRedo
  \/ HeapLoadPlaylists(<<RemotePlaylist("p1"), RemotePlaylist("p2")>>)
  \/ HeapSyncPlaylist("p1", RemotePlaylist("p1"))
  \/ HeapPushChanges("p1")

SpecHeap == Init /\ [][NextHeap]_vars

\* what a snapshot records: the playlists its entities map leads to, with
\* their tracks, and the identifiers of its order array
PlaylistValue(h, address) ==
  [id |-> h[address].id, name |-> h[address].name, tracks |-> h[h[address].data].items]

SnapshotValue(h, snapshot) ==
  [entities |-> [id \in DOMAIN h[snapshot.entities].fields |->
                   PlaylistValue(h, h[snapshot.entities].fields[id])],
   order |-> h[snapshot.order].items]

HistoryOnHeap == heap[root.history].items

\* C20: a snapshot is never altered after its creation: across every store
\* action, a snapshot of the history either is still in the history and
\* records the same entities and order as before, or has left it through
\* createSnapshot, by truncation of the snapshots after the cursor or by
\* eviction of the oldest one from a full history.
C20_SnapshotsNeverAltered ==
  [][\A i \in 1..Len(HistoryOnHeap) :
       LET snapshot == HistoryOnHeap[i]
           after == heap'[root'.history].items
       IN  \/ /\ \E j \in {i - 1, i} : j \in 1..Len(after) /\ after[j] = snapshot
              /\ SnapshotValue(heap', snapshot) = SnapshotValue(heap, snapshot)
           \/ /\ root'.now = root.now + 1
              /\ \A j \in 1..Len(after) : after[j] # snapshot
              /\ \/ i > root.historyIndex + 1
                 \/ i = 1 /\ root.historyIndex + 1 = MaxHistory]_vars

\* moveTrack has reordered the tracks of a playlist that the snapshot at the
\* cursor records, and the snapshot still holds them in the order they had
C20_Witness ==
  /\ last.op = "moveTrack"
  /\ root.historyIndex >= 0
  /\ LET snapshot == HistoryOnHeap[root.historyIndex + 1]
         recorded == SnapshotValue(heap, snapshot).entities
     IN  /\ last.id \in DOMAIN recorded
         /\ Holds(Machine, last.id)
         /\ recorded[last.id].tracks = <<"tA", "tB">>
         /\ Items(Machine, PlaylistAt(Machine, last.id).data) = <<"tB", "tA">>

\* the values that the objects of a machine hold: a state of the operators
\* on values
ValueOf(m) ==
  [entities |-> [id \in DOMAIN Fields(m, m.root.entities) |->
                   PlaylistValue(m.heap, Fields(m, m.root.entities)[id])],
   order |-> Items(m, m.root.order),
   selectedId |-> NULL,
   history |-> [i \in 1..Len(Items(m, m.root.history)) |->
                  LET snapshot == Items(m, m.root.history)[i]
                  IN  [entities |-> SnapshotValue(m.heap, snapshot).entities,
                       order |-> SnapshotValue(m.heap, snapshot).order,
                       timestamp |-> snapshot.timestamp,
                       description |-> snapshot.description]],
   historyIndex |-> m.root.historyIndex,
   isDirty |-> Fields(m, m.root.isDirty),
   now |-> m.root.now]

\* the two translations of the store agree: every action of SpecHeap leaves
\* objects that hold the values the operator on values computes
HeapAgreesWithValues ==
  [][LET s == ValueOf(Machine)
         t == ValueOf([heap |-> heap', root |-> root'])
     IN  CASE last'.op = "addPlaylist" -> \E playlist \in HeapPlaylists : t = addPlaylist(s, playlist)
           [] last'.op = "updatePlaylist" -> t = updatePlaylist(s, last'.id, [name |-> "Jazz"])
           [] last'.op = "deletePlaylist" -> t = deletePlaylist(s, last'.id)
           [] last'.op = "addTrackToPlaylist" -> t = addTrackToPlaylist(s, last'.id, "tA")
           [] last'.op = "removeTrackFromPlaylist" ->
                t = removeTrackFromPlaylist(s, last'.id, "tA")
           [] last'.op = "moveTrack" -> \E i \in {1, 2} : t = moveTrack(s, last'.id, i, 0)
           [] last'.op = "createSnapshot" -> t = createSnapshot(s, "snapshot")
           [] last'.op = "undo" -> t = undo(s)
           [] last'.op = "redo" -> t = redo(s)
           [] last'.op = "loadPlaylists" ->
                t = loadPlaylists(s, <<RemotePlaylist("p1"), RemotePlaylist("p2")>>)
           [] last'.op = "syncPlaylist" -> t = syncPlaylist(s, last'.id, RemotePlaylist("p1"))
           [] last'.op = "pushChanges" -> t = pushChanges(s, last'.id)]_vars

(***************************************************************************)
(* Pulling and pushing one playlist.                                        *)
(***************************************************************************)
\* C21: every successful pull of one playlist adds a new snapshot to the
\* history, and that snapshot, the one under the cursor, holds the entities and
\* the order as they are after the pull
C21_PullTakesSnapshot ==
  [][last'.op = "syncPlaylist" =>
       /\ Len(history') > 0
       /\ historyIndex' = Len(history') - 1
       /\ now' = now + 1
       /\ history'[historyIndex' + 1].entities = entities'
       /\ history'[historyIndex' + 1].order = order']_vars

\* C25: a push leaves entities, order, selectedId, history and historyIndex
\* as they were; it changes nothing when the playlist is absent or not dirty,
\* and otherwise changes only the dirty flag of id, which it clears
C25_PushFrame ==
  [][last'.op = "pushChanges" =>
       /\ entities' = entities /\ order' = order /\ selectedId' = selectedId
       /\ history' = history /\ historyIndex' = historyIndex /\ now' = now
       /\ IF last'.id \notin DOMAIN entities \/ ~Dirty(State, last'.id)
          THEN isDirty' = isDirty
          ELSE /\ DOMAIN isDirty' = DOMAIN isDirty
               /\ isDirty'[last'.id] = FALSE
               /\ \A other \in DOMAIN isDirty \ {last'.id} :
                    isDirty'[other] = isDirty[other]]_vars

\* a playlist renamed since the last snapshot, which only a push can have
\* marked clean, is clean after a push while the history holds snapshots
C25_Witness ==
  /\ last.op = "pushChanges"
  /\ last.id \in DOMAIN entities
  /\ entities[last.id].name = "Jazz"
  /\ last.id \in DOMAIN isDirty /\ ~isDirty[last.id]
  /\ Len(history) > 0
  /\ \A i \in 1..Len(history) :
       last.id \in DOMAIN history[i].entities =>
         history[i].entities[last.id].name = "Rock"

(***************************************************************************)
(* SpecSync: pulls as they run.  syncPlaylist sends getPlaylist and awaits  *)
(* it; until the request settles the store takes other actions.  The store  *)
(* starts empty, with the library loaded, or with one committed edit on it. *)
(***************************************************************************)
\* what the remote may answer to getPlaylist(id)
RemoteAnswers(id) ==
  {RemotePlaylist(id), [id |-> id, name |-> "Pop", tracks |-> <<"tA", "tB">>]}

SyncStarts ==
  LET loaded == loadPlaylists(InitState, <<RemotePlaylist("p1"), RemotePlaylist("p2")>>)
  IN  {InitState, loaded,
       applyMutations(loaded, "p1", <<[op |-> "rename", name |-> "Jazz"]>>).s}

InitSync ==
  /\ \E s \in SyncStarts :
       /\ entities = s.entities
       /\ order = s.order
       /\ selectedId = s.selectedId
       /\ history = s.history
       /\ historyIndex = s.historyIndex
       /\ isDirty = s.isDirty
       /\ now = s.now
  /\ last = Ran("create", "-", FALSE)
  /\ steps = 0
  /\ heap = InitMachine.heap
  /\ root = InitMachine.root
  /\ requests = {}
  /\ api = InitApi
  /\ musicKit = InitMusicKit(FALSE)
  /\ tasks = <<>>
  /\ jwt = InitJwt

\* the getPlaylist request that op (syncPlaylist, or revertChanges through
\* it) sends for id, with the step at which it was sent and whether the
\* playlist was dirty then
PullRequest(op, id) ==
  [op |-> op, id |-> id, request |-> "getPlaylist", began |-> steps,
   wasDirty |-> Dirty(State, id), status |-> "pending"]

Settled(request, status) ==
  (requests \ {request}) \cup {[request EXCEPT !.status = status]}

\* syncPlaylist(id) up to its await: the request is out, the caller holds a
\* pending promise
SyncPlaylistCalled(id) ==
  /\ Tick
  /\ Store(State)
  /\ requests' = requests \cup {PullRequest("syncPlaylist", id)}
  /\ last' = [op |-> "syncPlaylist", id |-> id, threw |-> FALSE, remote |-> "pending"]

\* revertChanges(id): it calls syncPlaylist(id) and returns without waiting
RevertChangesCalled(id) ==
  /\ Tick
  /\ Store(State)
  /\ requests' = requests \cup {PullRequest("revertChanges", id)}
  /\ last' = [op |-> "revertChanges", id |-> id, threw |-> FALSE, remote |-> "pending"]

\* getPlaylist resolves with playlist: the rest of the try block runs on the
\* store as it is now, and the promise of syncPlaylist is fulfilled
PullFulfilled(request, playlist) ==
  /\ request \in requests
  /\ request.status = "pending"
  /\ Tick
  /\ Store(IF request.op = "revertChanges"
           THEN revertChanges(State, request.id, playlist)
           ELSE syncPlaylist(State, request.id, playlist))
  /\ requests' = Settled(request, "fulfilled")
  /\ last' = [op |-> request.op, id |-> request.id, threw |-> FALSE,
              remote |-> "fulfilled", answer |-> playlist,
              wasDirty |-> request.wasDirty, dirty |-> Dirty(State, request.id)]

\* getPlaylist rejects (not authorized, or the fetch failed): the catch block
\* logs the error, and the promise of syncPlaylist is fulfilled all the same
PullRejected(request) ==
  /\ request \in requests
  /\ request.status = "pending"
  /\ Tick
  /\ Store(IF request.op = "revertChanges"
           THEN revertChangesFailed(State, request.id)
           ELSE syncPlaylistFailed(State, request.id))
  /\ requests' = Settled(request, "rejected")
  /\ last' = [op |-> request.op, id |-> request.id, threw |-> FALSE,
              remote |-> "rejected", answer |-> NULL,
              wasDirty |-> request.wasDirty, dirty |-> Dirty(State, request.id)]

NextSync ==
  \/ \E playlist \in NewPlaylists : AddPlaylist(playlist)
  \/ \E id \in PlaylistIds : UpdatePlaylist(id, [name |-> "Jazz"])
  \/ \E id \in PlaylistIds : AddTrackToPlaylist(id, "tA")
  \/ Undo
  \/ Redo
  \/ \E id \in PlaylistIds : PushChanges(id)
  \/ \E id \in PlaylistIds : SyncPlaylistCalled(id)
  \/ \E id \in PlaylistIds : RevertChangesCalled(id)
  \/ \E request \in requests : \E playlist \in RemoteAnswers(request.id) :
       PullFulfilled(request, playlist)
  \/ \E request \in requests : PullRejected(request)

SpecSync == InitSync /\ [][NextSync]_vars

\* the step is the settling of a pull's request with the given outcome
PullSettles(outcome) == "remote" \in DOMAIN last' /\ last'.remote = outcome

\* the store state the step leaves
StateAfter ==
  [entities |-> entities', order |-> order', selectedId |-> selectedId',
   history |-> history', historyIndex |-> historyIndex', isDirty |-> isDirty',
   now |-> now']

\* C22: when the request of syncPlaylist(id) resolves, entities[id] becomes
\* exactly the fetched playlist and isDirty[id] becomes false, whatever was
\* done to the playlist while the request was out; every other playlist's
\* entity and dirty flag stay as they were
C22_PullOverwrites ==
  [][PullSettles("fulfilled") /\ last'.op = "syncPlaylist" =>
       /\ entities' = Put(entities, last'.id, last'.answer)
       /\ isDirty' = Put(isDirty, last'.id, FALSE)]_vars

\* a playlist that was clean when the pull was called and dirty when it
\* resolved now holds the answer and is clean, next to another playlist
C22_Witness ==
  /\ "remote" \in DOMAIN last
  /\ last.remote = "fulfilled" /\ last.op = "syncPlaylist"
  /\ ~last.wasDirty /\ last.dirty
  /\ entities[last.id] = last.answer
  /\ ~isDirty[last.id]
  /\ DOMAIN entities # {last.id}

\* C23: a pull whose request fails changes nothing in the store: entities,
\* order, dirty flags, history and cursor are what they were
C23_FailedPullUnchanged ==
  [][PullSettles("rejected") =>
       UNCHANGED <<entities, order, selectedId, isDirty, history, historyIndex, now>>]_vars

\* the request of a pull of a dirty playlist has failed, with snapshots in the
\* history; the playlist is still there and still dirty
C23_Witness ==
  /\ "remote" \in DOMAIN last
  /\ last.remote = "rejected"
  /\ last.id \in DOMAIN entities
  /\ last.dirty /\ Dirty(State, last.id)
  /\ Len(history) > 0

\* C24: when the request of a pull fails, the caller of syncPlaylist or
\* revertChanges observes a failure, not a normal completion
C24_FailureSurfaced ==
  [][PullSettles("rejected") => last'.threw]_vars

\* the requests of AppleMusicAPI that change a playlist of the remote library
RemoteWrites == {"patchPlaylist", "addTracks", "removeTrack", "moveTrack", "renamePlaylist"}

\* C26: a push clears the dirty flag of id only once a request that writes
\* the playlist's local edits to the remote library has been sent for id and
\* confirmed
C26_CleanOnlyOncePushed ==
  [][/\ last'.op = "pushChanges"
     /\ last'.id \in DOMAIN isDirty /\ isDirty[last'.id]
     /\ ~isDirty'[last'.id]
     => \E request \in requests' :
          /\ request.id = last'.id
          /\ request.request \in RemoteWrites
          /\ request.status = "fulfilled"]_vars

\* C28: revertChanges(id) ends where syncPlaylist(id) ends from the same
\* store state with the same remote answer, for a dirty playlist and for a
\* clean one: when its request settles, the store becomes what syncPlaylist
\* makes of the store as it was, given that answer or that failure
C28_RevertIsPull ==
  [][("remote" \in DOMAIN last' /\ last'.op = "revertChanges") =>
       CASE last'.remote = "fulfilled" ->
              StateAfter = syncPlaylist(State, last'.id, last'.answer)
         [] last'.remote = "rejected" -> StateAfter = syncPlaylistFailed(State, last'.id)
         [] OTHER -> StateAfter = State]_vars

\* a revert has resolved on a playlist that was clean and differed from the
\* answer: the playlist now holds the answer
C28_Witness ==
  /\ "remote" \in DOMAIN last
  /\ last.op = "revertChanges" /\ last.remote = "fulfilled"
  /\ ~last.dirty
  /\ entities[last.id] = last.answer
  /\ Len(history) > 0
  /\ last.id \in DOMAIN history[historyIndex + 1].entities
  /\ history[historyIndex + 1].entities[last.id] # last.answer

(***************************************************************************)
(* SpecAuth: calls of appleMusicAPI.initialize() and authorize() made while *)
(* earlier ones are still running, with MusicKit loading, configuring and   *)
(* answering in between.  The retries of waitForMusicAPI with the API down   *)
(* are taken in one step here (SpecWait takes them one by one).  The store   *)
(* is not involved.                                                          *)
(***************************************************************************)
\* the application makes at most MaxCalls calls in SpecAuth and at most
\* MaxInitCalls in SpecInit
MaxCalls == 2
MaxInitCalls == 3

World == [api |-> api, musicKit |-> musicKit, tasks |-> tasks]

Turn(w) ==
  /\ api' = w.api
  /\ musicKit' = w.musicKit
  /\ tasks' = w.tasks
  /\ UNCHANGED <<entities, order, selectedId, history, historyIndex, isDirty, now>>
  /\ UNCHANGED <<last, steps, heap, root, requests, jwt>>

InitAuth ==
  /\ entities = InitState.entities
  /\ order = InitState.order
  /\ selectedId = InitState.selectedId
  /\ history = InitState.history
  /\ historyIndex = InitState.historyIndex
  /\ isDirty = InitState.isDirty
  /\ now = InitState.now
  /\ last = Ran("create", "-", FALSE)
  /\ steps = 0
  /\ heap = InitMachine.heap
  /\ root = InitMachine.root
  /\ requests = {}
  /\ api = InitApi
  /\ \E loaded \in BOOLEAN : musicKit = InitMusicKit(loaded)
  /\ tasks = <<>>
  /\ jwt = InitJwt

At(t, fn, pc) == tasks[t].fn = fn /\ tasks[t].pc = pc

\* the task or request that task t awaits has settled
Awaited(t) == tasks[tasks[t].on].result # "pending"

\* the MusicKit script finishes loading
MusicKitLoads ==
  /\ ~musicKit.loaded
  /\ Turn([World EXCEPT !.musicKit.loaded = TRUE])

\* the calls the application has made
Made == {t \in DOMAIN tasks : tasks[t].by = 0}

\* the application calls initialize(), having made fewer than max calls
CallInitialize(max) == Cardinality(Made) < max /\ Turn(initialize(World))

CallAuthorize(max) == Cardinality(Made) < max /\ Turn(authorize(World))

DoInitializeLoaded(t) ==
  /\ At(t, "_doInitialize", "loading")
  /\ musicKit.loaded
  /\ Turn(doInitializeLoaded(World, t))

DoInitializeTimedOut(t) ==
  /\ At(t, "_doInitialize", "loading")
  /\ ~musicKit.loaded
  /\ Turn(doInitializeTimedOut(World, t))

ConfigureSettled(t, session) ==
  /\ At(t, "_doInitialize", "configuring")
  /\ Turn(configureSettled(World, t, session))

InitializeResumed(c) ==
  /\ At(c, "initialize", "awaiting")
  /\ Awaited(c)
  /\ Turn(initializeResumed(World, c))

InitializeJoined(c) ==
  /\ At(c, "initialize", "joined")
  /\ Awaited(c)
  /\ Turn(initializeJoined(World, c))

AuthorizeInitialized(c) ==
  /\ At(c, "authorize", "initializing")
  /\ Awaited(c)
  /\ Turn(authorizeInitialized(World, c))

UnauthorizeSettled(c, resolved) ==
  /\ At(c, "authorize", "unauthorizing")
  /\ Turn(unauthorizeSettled(World, c, resolved))

AuthorizeWaited(c) ==
  /\ At(c, "authorize", "waiting")
  /\ Turn(authorizeWaited(World, c))

RequestSettled(c, outcome) ==
  /\ At(c, "authorize", "requesting")
  /\ Turn(requestSettled(World, c, outcome))

\* the API of an authorized instance comes up
ApiComesUp ==
  /\ musicKit.isAuthorized
  /\ ~musicKit.ready
  /\ Turn([World EXCEPT !.musicKit.ready = TRUE])

WaitSlept(t) ==
  /\ At(t, "waitForMusicAPI", "sleeping")
  /\ Turn(waitSlept(World, t))

\* the API stays down for the rest of the retries of t
WaitSleptOut(t) ==
  /\ At(t, "waitForMusicAPI", "sleeping")
  /\ ~checkMusicAPI(World)
  /\ Turn(waitSleptOut(World, t))

AuthorizeApiWaited(c) ==
  /\ At(c, "authorize", "awaitingAPI")
  /\ Awaited(c)
  /\ Turn(authorizeApiWaited(World, c))

StorefrontSettled(c, resolved) ==
  /\ At(c, "authorize", "storefront")
  /\ Turn(storefrontSettled(World, c, resolved))

Sessions == {"none", "stale", "ready", "failed"}
Outcomes == {"ready", "notReady", "denied", "failed"}

NextAuth ==
  \/ MusicKitLoads
  \/ CallInitialize(MaxCalls)
  \/ CallAuthorize(MaxCalls)
  \/ \E t \in DOMAIN tasks : DoInitializeLoaded(t)
  \/ \E t \in DOMAIN tasks : DoInitializeTimedOut(t)
  \/ \E t \in DOMAIN tasks, session \in Sessions : ConfigureSettled(t, session)
  \/ \E c \in DOMAIN tasks : InitializeResumed(c)
  \/ \E c \in DOMAIN tasks : InitializeJoined(c)
  \/ \E c \in DOMAIN tasks : AuthorizeInitialized(c)
  \/ \E c \in DOMAIN tasks, resolved \in BOOLEAN : UnauthorizeSettled(c, resolved)
  \/ \E c \in DOMAIN tasks : AuthorizeWaited(c)
  \/ \E c \in DOMAIN tasks, outcome \in Outcomes : RequestSettled(c, outcome)
  \/ ApiComesUp
  \/ \E t \in DOMAIN tasks : checkMusicAPI(World) /\ WaitSlept(t)
  \/ \E t \in DOMAIN tasks : WaitSleptOut(t)
  \/ \E c \in DOMAIN tasks : AuthorizeApiWaited(c)
  \/ \E c \in DOMAIN tasks, resolved \in BOOLEAN : StorefrontSettled(c, resolved)

SpecAuth == InitAuth /\ [][NextAuth]_vars

\* SpecInit: the initialization alone.  initialize() is called by the
\* application and by authorize(), at any point of an attempt; authorize()
\* is followed up to the end of its initialize()
NextInit ==
  \/ MusicKitLoads
  \/ CallInitialize(MaxInitCalls)
  \/ CallAuthorize(MaxInitCalls)
  \/ \E t \in DOMAIN tasks : DoInitializeLoaded(t)
  \/ \E t \in DOMAIN tasks : DoInitializeTimedOut(t)
  \/ \E t \in DOMAIN tasks, session \in Sessions : ConfigureSettled(t, session)
  \/ \E c \in DOMAIN tasks : InitializeResumed(c)
  \/ \E c \in DOMAIN tasks : InitializeJoined(c)
  \/ \E c \in DOMAIN tasks : AuthorizeInitialized(c)

SpecInit == InitAuth /\ [][NextInit]_vars

\* the _doInitialize calls that have not settled
Attempts == {t \in DOMAIN tasks : tasks[t].fn = "_doInitialize" /\ tasks[t].result = "pending"}

Sent(kind) == {r \in DOMAIN musicKit.requests : musicKit.requests[r].kind = kind}

Pending(kind) == {r \in Sent(kind) : musicKit.requests[r].status = "pending"}

\* the tasks the step starts
Started == (DOMAIN tasks') \ DOMAIN tasks

\* C29: initialize() is single-flight.  At most one _doInitialize, and at
\* most one configure request, is unsettled at any time; an initialize() that
\* has ended after awaiting an attempt has ended with that attempt's outcome;
\* an initialize() called while an attempt is unsettled awaits that attempt
\* and starts none; and an initialize() called after an attempt has succeeded
\* starts no attempt and sends no configure request
C29_SingleFlight ==
  /\ [](/\ Cardinality(Attempts) <= 1
        /\ Cardinality(Pending("configure")) <= 1
        /\ \A c \in DOMAIN tasks :
             (tasks[c].fn = "initialize" /\ tasks[c].on # 0 /\ tasks[c].result # "pending")
               => tasks[c].result = tasks[tasks[c].on].result)
  /\ [][\A c \in Started :
          tasks'[c].fn = "initialize" =>
            /\ \A a \in Attempts :
                 /\ tasks'[c].on = a
                 /\ tasks'[c].result = "pending"
                 /\ \A t \in Started : tasks'[t].fn # "_doInitialize"
            /\ (\E a \in DOMAIN tasks :
                  tasks[a].fn = "_doInitialize" /\ tasks[a].result = "fulfilled")
                 => /\ \A t \in Started : tasks'[t].fn # "_doInitialize"
                    /\ musicKit'.requests = musicKit.requests]_vars

\* one attempt has configured MusicKit; the initialize() that started it and
\* one that arrived while it ran have both ended fulfilled with it, and an
\* initialize() called later has returned at once; one configure was sent
C29_Witness ==
  \E a, c, d, e \in DOMAIN tasks :
    /\ c < a /\ a < d /\ d < e
    /\ tasks[a].fn = "_doInitialize" /\ tasks[a].result = "fulfilled"
    /\ tasks[c] = Task("initialize", "done", a, "fulfilled")
    /\ tasks[d] = Task("initialize", "done", a, "fulfilled")
    /\ tasks[e] = Task("initialize", "done", 0, "fulfilled")
    /\ Cardinality(Sent("configure")) = 1
    /\ musicKit.requests[1].status = "fulfilled"

\* C30: authorize() called while an earlier authorize() is running sends no
\* second handshake: at most one requestAuthorization and at most one
\* unauthorize request is unsettled at any time
C30_OneHandshake ==
  /\ Cardinality(Pending("requestAuthorization")) <= 1
  /\ Cardinality(Pending("unauthorize")) <= 1

(***************************************************************************)
(* Invariants of the store.                                                 *)
(***************************************************************************)
\* C34: the identifiers in order are exactly the keys of entities
C34_OrderMatchesEntities ==
  {order[i] : i \in DOMAIN order} = DOMAIN entities

\* C35: every identifier with an entry in the dirty map is the identifier of
\* a playlist in entities
C35_DirtyFlagsHavePlaylists ==
  DOMAIN isDirty \subseteq DOMAIN entities

\* SpecSelect: playlists are added, loaded and deleted, a listed playlist (or
\* none) is selected, and commits are undone and redone
NextSelect ==
  \/ \E id \in DOMAIN entities \cup {NULL} : SelectPlaylist(id)
  \/ \E playlist \in NewPlaylists : AddPlaylist(playlist)
  \/ \E id \in PlaylistIds : DeletePlaylist(id)
  \/ \E ps \in RemoteLists : LoadPlaylists(ps)
  \/ Undo
  \/ Redo

SpecSelect == Init /\ [][NextSelect]_vars

\* C36: selectedId is null or the identifier of a playlist in entities
C36_SelectionIsListed ==
  selectedId = NULL \/ selectedId \in DOMAIN entities

\* C37: a direct call of addTrackToPlaylist, removeTrackFromPlaylist,
\* moveTrack or updatePlaylist on P leaves order, selectedId, history and
\* historyIndex as they were, takes no snapshot, and leaves the entity and
\* the dirty flag of every playlist but P as they were
C37_PrimitiveFrame ==
  [][last'.op \in TrackPrimitives =>
       /\ order' = order /\ selectedId' = selectedId
       /\ history' = history /\ historyIndex' = historyIndex /\ now' = now
       /\ DOMAIN entities' = DOMAIN entities
       /\ \A other \in DOMAIN entities \ {last'.id} : entities'[other] = entities[other]
       /\ OtherFlagsUnchanged(last'.id)]_vars

\* a primitive has changed one of two playlists and made it dirty; the other
\* is still clean, and the history still ends with the snapshot of the second
\* addPlaylist, which does not hold the change
C37_Witness ==
  /\ last.op \in TrackPrimitives
  /\ DOMAIN entities = PlaylistIds
  /\ Dirty(State, last.id)
  /\ \A other \in PlaylistIds \ {last.id} : ~Dirty(State, other)
  /\ Len(history) = 2 /\ historyIndex = 1
  /\ history[2].entities[last.id] # entities[last.id]

\* C38: whenever authorize() resolves to true, the getter isAuthorized is
\* true at that moment: the instance is present, its isAuthorized flag is
\* set, and api.music, api.library and authorizationStatus 3 are there
C38_TrueMeansAuthorized ==
  [][\A c \in DOMAIN tasks :
       (tasks[c].fn = "authorize" /\ tasks[c].result = "pending" /\ tasks'[c].result = "true")
         => isAuthorized([api |-> api', musicKit |-> musicKit', tasks |-> tasks'])]_vars

(***************************************************************************)
(* SpecWait: calls of waitForMusicAPI() on an authorized instance whose API *)
(* is up or comes up later, each retry delay a step of its own.  A delay     *)
(* that has begun ends (the timer fires).                                    *)
(***************************************************************************)
\* waitForMusicAPI is called at most MaxWaiters times
MaxWaiters == 2

InitWait ==
  /\ entities = InitState.entities
  /\ order = InitState.order
  /\ selectedId = InitState.selectedId
  /\ history = InitState.history
  /\ historyIndex = InitState.historyIndex
  /\ isDirty = InitState.isDirty
  /\ now = InitState.now
  /\ last = Ran("create", "-", FALSE)
  /\ steps = 0
  /\ heap = InitMachine.heap
  /\ root = InitMachine.root
  /\ requests = {}
  /\ api = [InitApi EXCEPT !.music = TRUE]
  /\ \E ready \in BOOLEAN :
       musicKit = [InitMusicKit(TRUE) EXCEPT !.configured = TRUE, !.isAuthorized = TRUE,
                                             !.ready = ready]
  /\ tasks = <<>>
  /\ jwt = InitJwt

CallWaitForMusicAPI == Len(tasks) < MaxWaiters /\ Turn(waitForMusicAPI(World))

NextWait ==
  \/ CallWaitForMusicAPI
  \/ \E t \in DOMAIN tasks : WaitSlept(t)
  \/ ApiComesUp

SpecWait ==
  /\ InitWait
  /\ [][NextWait]_vars
  /\ \A t \in 1..MaxWaiters : WF_vars(t \in DOMAIN tasks /\ WaitSlept(t))

\* the checks task has made: one per pass of the loop, the pass it sleeps
\* after included
ChecksMade(task) == IF task.result = "false" THEN task.i ELSE task.i + 1

\* C39: waitForMusicAPI checks readiness at most 20 times; every check that
\* finds the API ready returns true and no other does; it returns false
\* exactly when the 20th check has failed; and every call returns
C39_BoundedWait ==
  /\ [](\A t \in DOMAIN tasks :
          /\ ChecksMade(tasks[t]) <= 20
          /\ tasks[t].result = "false" => tasks[t].i = 20
          /\ tasks[t].result # "false" => tasks[t].i < 20)
  /\ [][\A t \in DOMAIN tasks' :
          (t \notin DOMAIN tasks \/ tasks'[t] # tasks[t]) =>
            IF tasks'[t].i < 20
            THEN (tasks'[t].result = "true") = checkMusicAPI(World)
            ELSE tasks'[t].result = "false"]_vars
  /\ \A t \in 1..MaxWaiters :
       [](t \in DOMAIN tasks => <>(t \in DOMAIN tasks /\ tasks[t].pc = "done"))

\* one call has returned false after its 20 checks and another, which saw
\* the API come up at a later check of its own, has returned true
C39_Witness ==
  \E s, t \in DOMAIN tasks :
    /\ tasks[s].result = "false" /\ tasks[s].i = 20
    /\ tasks[t].result = "true" /\ tasks[t].i > 0

(***************************************************************************)
(* SpecJwt: developer tokens are generated and checked while time passes    *)
(***************************************************************************)
\* the clock is moved at most MaxAdvances times
MaxAdvances == 4

\* private keys: none, a key in PEM form, the bare body of a key, and text
\* that is not a key, bare or between PEM lines
Keys ==
  {Key(FALSE, ""), Key(TRUE, "valid"), Key(FALSE, "valid"),
   Key(FALSE, "invalid"), Key(TRUE, "invalid")}

Configs ==
  [privateKey : Keys, keyId : {"", "ABC123DEFG"}, teamId : {"", "DEF456GHIJ"}]

\* time passes: half a second, a second, or a second less than 180 days
Advances == {DateNow(0, 500), DateNow(1, 0), DateNow(expiresIn - 1, 0)}

\* clock + d, as Date.now() would add the milliseconds
Later(clock, d) ==
  DateNow(clock.s + d.s + ((clock.ms + d.ms) \div 1000), (clock.ms + d.ms) % 1000)

\* strings that generateAppleMusicJWT did not return: two parts, a payload
\* that is not base64, one that is not JSON, one without exp, one with exp 0
HeaderPart == base64url(JSONstringify([alg |-> "ES256", typ |-> "JWT", kid |-> "ABC123DEFG"]))

OtherTokens ==
  { << HeaderPart, base64url(JSONstringify([iss |-> "DEF456GHIJ", iat |-> 0, exp |-> expiresIn])) >>,
    << HeaderPart, [alphabet |-> "none", text |-> JSONstringify([iss |-> "DEF456GHIJ"])],
       base64url(NotJSON) >>,
    << HeaderPart, base64url(NotJSON), base64url(NotJSON) >>,
    << HeaderPart, base64url(JSONstringify([iss |-> "DEF456GHIJ", iat |-> 0])),
       base64url(NotJSON) >>,
    << HeaderPart, base64url(JSONstringify([iss |-> "DEF456GHIJ", iat |-> 0, exp |-> 0])),
       base64url(NotJSON) >> }

JwtBecomes(j) ==
  /\ jwt' = j
  /\ UNCHANGED <<entities, order, selectedId, history, historyIndex, isDirty, now>>
  /\ UNCHANGED <<last, steps, heap, root, requests, api, musicKit, tasks>>

GenerateAppleMusicJWT(config) ==
  LET result == generateAppleMusicJWT(config, jwt.clock) IN
  JwtBecomes([jwt EXCEPT !.op = "generate", !.config = config,
                         !.token = result.token, !.thrown = result.thrown,
                         !.issued = jwt.clock])

IsJWTExpired(token) ==
  JwtBecomes([jwt EXCEPT !.op = "isJWTExpired", !.checked = token,
                         !.expired = isJWTExpired(token, jwt.clock)])

TimePasses(d) ==
  /\ jwt.advances < MaxAdvances
  /\ JwtBecomes([jwt EXCEPT !.op = "none", !.clock = Later(jwt.clock, d),
                            !.advances = @ + 1])

NextJwt ==
  \/ \E config \in Configs : GenerateAppleMusicJWT(config)
  \/ \E token \in OtherTokens \cup {jwt.token} : IsJWTExpired(token)
  \/ \E d \in Advances : TimePasses(d)

SpecJwt == Init /\ [][NextJwt]_vars

\* C31: generateAppleMusicJWT throws 'Missing required JWT configuration'
\* and returns no token whenever privateKey, keyId or teamId is empty, and
\* returns a token only when all three are present
C31_MissingConfiguration ==
  jwt.op = "generate" =>
    LET missing == \/ emptyKey(jwt.config.privateKey)
                   \/ jwt.config.keyId = ""
                   \/ jwt.config.teamId = ""
    IN /\ missing => (jwt.thrown = MissingConfiguration /\ jwt.token = NoToken)
       /\ jwt.token # NoToken => (~missing /\ jwt.thrown = "")
       /\ jwt.thrown = MissingConfiguration => missing

\* generateAppleMusicJWT has been called with a key and a team id and an
\* empty key id, and has thrown the error
C31_Witness ==
  /\ jwt.op = "generate"
  /\ jwt.config = [privateKey |-> Key(TRUE, "valid"), keyId |-> "", teamId |-> "DEF456GHIJ"]
  /\ jwt.thrown = MissingConfiguration
  /\ jwt.token = NoToken

\* the instant at which a generated token expires: 180 days after the
\* second in which it was issued
ExpiryOf(issued) == floorSeconds(issued) + 180 * 24 * 60 * 60

\* C32: a generated token has exp = iat + 180*24*60*60; isJWTExpired says
\* not expired at any time before that instant and expired at any time
\* after it; a token that cannot be decoded or has no exp is expired
C32_ExpiresAfter180Days ==
  jwt.op = "isJWTExpired" =>
    IF jwt.checked # NoToken /\ jwt.checked = jwt.token
    THEN /\ decodeJWT(jwt.checked).payload.exp = ExpiryOf(jwt.issued)
         /\ decodeJWT(jwt.checked).payload.iat = floorSeconds(jwt.issued)
         /\ jwt.clock.s < ExpiryOf(jwt.issued) => ~jwt.expired
         /\ (\/ jwt.clock.s > ExpiryOf(jwt.issued)
             \/ (jwt.clock.s = ExpiryOf(jwt.issued) /\ jwt.clock.ms > 0)) => jwt.expired
    ELSE (decodeJWT(jwt.checked).null \/ noExp(decodeJWT(jwt.checked).payload))
           => jwt.expired


(***************************************************************************)
(* SpecPatch: patchPlaylist is called, its requests settle one by one, and  *)
(* the user may sign out meanwhile                                          *)
(***************************************************************************)
\* patchPlaylist is called at most MaxPatches times
MaxPatches == 2

\* arrays of operations: every op, a move between and a remove without
\* track id before operations that send requests, and no operation at all
PatchBatches ==
  { <<>>,
    <<[op |-> "add", tracks |-> <<"tA">>], [op |-> "remove", trackId |-> "tA"],
      [op |-> "rename", name |-> "Jazz"]>>,
    <<[op |-> "remove"], [op |-> "rename", name |-> "Jazz"],
      [op |-> "move", trackId |-> "tA", fromIndex |-> 1, toIndex |-> 0],
      [op |-> "add", tracks |-> <<"tA", "tB">>]>> }

\* the user is signed in: initialize() and authorize() have succeeded
InitPatch ==
  /\ entities = InitState.entities
  /\ order = InitState.order
  /\ selectedId = InitState.selectedId
  /\ history = InitState.history
  /\ historyIndex = InitState.historyIndex
  /\ isDirty = InitState.isDirty
  /\ now = InitState.now
  /\ last = Ran("create", "-", FALSE)
  /\ steps = 0
  /\ heap = InitMachine.heap
  /\ root = InitMachine.root
  /\ requests = {}
  /\ api = [InitApi EXCEPT !.music = TRUE]
  /\ musicKit = [InitMusicKit(TRUE) EXCEPT !.configured = TRUE, !.isAuthorized = TRUE,
                                            !.ready = TRUE]
  /\ tasks = <<>>
  /\ jwt = InitJwt

CallPatchPlaylist(id, operations) ==
  /\ Len(tasks) < MaxPatches
  /\ Turn(patchPlaylist(World, id, operations))

MutationSettled(t, resolved) ==
  /\ At(t, "patchPlaylist", "awaiting")
  /\ Turn(mutationSettled(World, t, resolved))

\* the user signs out: music.unauthorize()
SignedOut ==
  /\ musicKit.isAuthorized
  /\ Turn([World EXCEPT !.musicKit.isAuthorized = FALSE, !.musicKit.ready = FALSE])

NextPatch ==
  \/ \E id \in PlaylistIds, operations \in PatchBatches : CallPatchPlaylist(id, operations)
  \/ \E t \in DOMAIN tasks, resolved \in BOOLEAN : MutationSettled(t, resolved)
  \/ SignedOut

SpecPatch == InitPatch /\ [][NextPatch]_vars

\* 1..n in ascending order
Upto(n) == [k \in 1..n |-> k]

\* the requests call t has sent, oldest first
RequestsOf(t) ==
  LET mine == SelectSeq(Upto(Len(musicKit.requests)), LAMBDA k : musicKit.requests[k].by = t)
  IN [j \in 1..Len(mine) |-> musicKit.requests[mine[j]]]

\* the operations of call t that come with a request, in array order
Due(t) == SelectSeq(Upto(Len(tasks[t].operations)), LAMBDA k : sends(tasks[t].operations[k]))

\* C33: patchPlaylist sends the requests of its operations one at a time in
\* array order, each only after the one before has resolved; at the first
\* rejection it stops, sends nothing more and rejects; nothing it sent is
\* taken back
C33_SequentialPatch ==
  /\ [](\A t \in DOMAIN tasks :
          LET sent == RequestsOf(t)
              due == Due(t)
          IN /\ Len(sent) <= Len(due)
             /\ \A j \in 1..Len(sent) :
                  /\ sent[j].index = due[j]
                  /\ sent[j].kind = tasks[t].operations[due[j]].op
                  /\ sent[j].playlist = tasks[t].id
                  /\ j < Len(sent) => sent[j].status = "fulfilled"
             /\ (tasks[t].pc = "awaiting")
                  = (Len(sent) > 0 /\ sent[Len(sent)].status = "pending")
             /\ (Len(sent) > 0 /\ sent[Len(sent)].status = "rejected")
                  => tasks[t].result = "rejected"
             /\ tasks[t].result = "fulfilled"
                  => (Len(sent) = Len(due)
                      /\ \A j \in 1..Len(sent) : sent[j].status = "fulfilled"))
  /\ [][/\ Len(musicKit.requests') >= Len(musicKit.requests)
        /\ \A k \in DOMAIN musicKit.requests :
             \/ musicKit.requests'[k] = musicKit.requests[k]
             \/ /\ musicKit.requests[k].status = "pending"
                /\ [musicKit.requests'[k] EXCEPT !.status = "pending"] = musicKit.requests[k]
        /\ \A t \in DOMAIN tasks :
             tasks[t].pc = "done" => /\ tasks'[t] = tasks[t]
                                     /\ RequestsOf(t)' = RequestsOf(t)]_vars

\* a call with three operations that send requests has had its first
\* request resolve and its second reject: it has rejected with the third
\* operation never sent and the first still applied
C33_Witness ==
  \E t \in DOMAIN tasks :
    /\ Len(Due(t)) = 3
    /\ tasks[t].pc = "done"
    /\ tasks[t].result = "rejected"
    /\ Len(RequestsOf(t)) = 2
    /\ RequestsOf(t)[1].status = "fulfilled"
    /\ RequestsOf(t)[2].status = "rejected"

====
